---- MODULE Spec2Model ----
(***************************************************************************)
(* Model of the Agones sidecar for the Assetto Corsa server: the output    *)
(* handlers (agones/handlers), the periodic loops (agones/monitoring), the *)
(* modular wrapper's main, the circuit breaker and the log-line parsers    *)
(* (agones/utils), the monolithic wrapper's child lifecycle                *)
(* (agones/main.go), the users of the ServerState lock, the sampling pool  *)
(* of MonitorSystemResources, the exit of the periodic tasks, the rate     *)
(* limiter (agones/utils/ratelimit.go) and the countdown of the            *)
(* CcTimeSession plugin.                                                   *)
(*                                                                         *)
(* A log line is a sequence of tokens.  A token is a piece of text that    *)
(* the code never looks inside: a marker such as "has connected", a        *)
(* delimiter such as "(" or ",", a blank " ", or a word.                   *)
(***************************************************************************)
EXTENDS Integers, Sequences, FiniteSets, TLC

\* ------------------------------------------------------------------ bounds
\* Lines the child process writes in one run.
MaxLines == 4
\* Seconds the model clock counts past the last health ping.
MaxAge == 6
\* Length of the free-form lines given to the parsers.
MaxFreeLen == 3
\* Largest maxFailures a circuit breaker is built with.
MaxThreshold == 3
\* Calls made on the circuit breaker in one run.
MaxCalls == 5
\* Largest timeout (seconds) a circuit breaker is built with.
MaxCooldown == 2
\* Seconds the circuit breaker's clock counts past the last failure.
MaxSince == 3
\* Routines started in one run of the ServerState lock's users.
MaxRuns == 3
\* Ticks of the system-resources ticker in one run.
MaxTicks == 4
\* Capacity given to the perfUpdates channel (100 in the code).
MaxPerf == 1
\* pauses between the calls of Allow, calls allowed
MaxSleeps == 3
MaxGrants == 12
\* the longest session configured, in minutes
MaxMinutes == 35
\* the largest maxHistory a session manager is built with, and the calls
\* of StartNewSession made on one manager
MaxHistory == 2
MaxStarts == 51
\* make(chan SessionTransition, 50)
TransitionsCap == 50

\* ------------------------------------------------- program constants
\* time.Since(serverState.LastPing) < 5*time.Second
HealthThresholdSec == 5

\* ------------------------------------------------------- Go's strings
\* strings.Contains(s, t) for a one-token t
Contains(s, t) == \E i \in 1..Len(s) : s[i] = t

\* strings.Index(s, t): 0-based index of the first t, -1 when absent
Index(s, t) ==
  IF Contains(s, t)
  THEN (CHOOSE i \in 1..Len(s) : s[i] = t /\ \A j \in 1..(i-1) : s[j] # t) - 1
  ELSE -1

\* strings.LastIndex(s, t): 0-based index of the last t, -1 when absent
LastIndex(s, t) ==
  IF Contains(s, t)
  THEN (CHOOSE i \in 1..Len(s) : s[i] = t /\ \A j \in (i+1)..Len(s) : s[j] # t) - 1
  ELSE -1

\* the Go slice s[a:b], 0-based, b exclusive
Slice(s, a, b) == SubSeq(s, a + 1, b)

\* strings.TrimSpace(s)
RECURSIVE TrimLeft(_)
TrimLeft(s) == IF s # <<>> /\ Head(s) = " " THEN TrimLeft(Tail(s)) ELSE s

RECURSIVE TrimRight(_)
TrimRight(s) ==
  IF s # <<>> /\ s[Len(s)] = " " THEN TrimRight(SubSeq(s, 1, Len(s) - 1)) ELSE s

TrimSpace(s) == TrimRight(TrimLeft(s))

\* strings.Split(s, t)[0]: what precedes the first t, all of s when t is absent
SplitFirst(s, t) == IF Contains(s, t) THEN Slice(s, 0, Index(s, t)) ELSE s

\* ------------------------------------------------ utils: the extractors
\* ExtractName: drop a "[timestamp]" prefix, keep what precedes
\* "has connected", cut at the first "(", trim.
ExtractName(output) ==
  LET idx  == Index(output, "]")
      out1 == IF idx # -1 THEN TrimSpace(Slice(output, idx + 1, Len(output))) ELSE output
      name == SplitFirst(out1, "has connected")
      par  == Index(name, "(")
      cut  == IF par # -1 THEN Slice(name, 0, par) ELSE name
  IN  TrimSpace(cut)

\* ExtractSteamID: the text between the first "(" and the first "," after
\* it, trimmed; "" when either is missing.
ExtractSteamID(output) ==
  LET start == Index(output, "(")
  IN  IF start # -1
      THEN LET end == Index(Slice(output, start, Len(output)), ",")
           IN  IF end # -1
               THEN TrimSpace(Slice(output, start + 1, start + end))
               ELSE <<>>
      ELSE <<>>

\* ExtractCarModel: the text between the last "(" and the last ")", cut at
\* its first ",", trimmed; "" when there is no such pair.
ExtractCarModel(output) ==
  LET start == LastIndex(output, "(")
      end   == LastIndex(output, ")")
  IN  IF start # -1 /\ end # -1 /\ end > start
      THEN LET carModel == Slice(output, start + 1, end)
               idx      == Index(carModel, ",")
           IN  TrimSpace(IF idx # -1 THEN Slice(carModel, 0, idx) ELSE carModel)
      ELSE <<>>

\* ExtractPlayerInfo
ExtractPlayerInfo(output) ==
  [Name     |-> ExtractName(output),
   SteamID  |-> ExtractSteamID(output),
   CarModel |-> ExtractCarModel(output)]

\* ------------------------------------------------------ the log lines
PlayerNames == {"Alice", "Bob"}

SteamIdOf(n) == IF n = "Alice" THEN "76561197960287930" ELSE "76561197960287931"

Cars == {"ks_mx5"}

\* "<name> (<steamid>) has connected (<car>)"
ConnectLine(n, id, car) ==
  <<n, " ", "(", id, ")", " ", "has connected", " ", "(", car, ")">>

\* "<name> (<steamid>) has disconnected"
DisconnectLine(n, id) ==
  <<n, " ", "(", id, ")", " ", "has disconnected">>

\* "<name> (<steamid>, <slot>) has connected (<car>)"
ConnectLineComma(n, id, car) ==
  <<n, " ", "(", id, ",", " ", "0", ")", " ", "has connected", " ", "(", car, ")">>

\* "<name> (<steamid>, <slot>) has disconnected"
DisconnectLineComma(n, id) ==
  <<n, " ", "(", id, ",", " ", "0", ")", " ", "has disconnected">>

\* "<name> has disconnected": a disconnect line without a steam id
DisconnectLineNoId(n) == <<n, " ", "has disconnected">>

StartingLine == <<"Starting Assetto Corsa Server...">>

LobbyLine == <<"Lobby registration successful">>

EndLine == <<"End of session">>

\* one write of the child that holds two lines
Chunk(first, second) == first \o <<"\n">> \o second

\* a line no rule of HandleServerOutput recognises
UnhandledLine == <<"Loading", " ", "track">>

\* lines that match a case of the switch, with and without the field the
\* handler of that case indexes
FieldLines ==
  { <<"Starting TCP server", " ", "on", " ", "port", " ", "9600">>,
    <<"Starting TCP server">>,
    <<"Remaining time of session", " ", "12">>,
    <<"Switching session to id", " ", "1">> }

\* what a player typed into the chat, as the server logs it after "CHAT:"
ChatTexts ==
  { <<"hello">>,
    <<"End of session">>,
    <<"Lobby registration successful">>,
    <<"Starting Assetto Corsa Server...">> }

\* the log line of a chat message: the marker, the sender, the typed text
ChatLine(n, text) == <<"CHAT:", " ", n, ":", " ">> \o text

\* ------------------------------------------------------------- state
VARIABLES
  \* types.ServerState
  Ready, ShuttingDown, Players, ConnectedPlayers,
  \* seconds since ServerState.LastPing, counted up to MaxAge
  pingAge,
  \* number of signals held by the capacity-1 serverReady channel
  serverReady,
  \* the root context of main has been cancelled
  ctxDone,
  \* position of each goroutine
  outPc, healthPc, sigPc, mainPc, mmPc, resPc,
  \* lines HandleServerOutput has been called with
  nLines,
  \* the last answer of the /health endpoint
  resp,
  \* calls received by the orchestrator SDK: Shutdown() by caller, Ready()
  sdkShutdown, sdkReady,
  \* history: Ready false->true changes made by handleServerReady, and
  \* sends it attempted on serverReady
  readyFires, readyOffers,
  \* history: handleSessionEnd ran to its end (gracefulShutdown returned)
  sessionEndDone,
  \* metrics.PlayersGauge
  playersGauge,
  \* history: the DoHealth tick in progress has assigned LastPing
  tickWrotePing,
  \* history: the last line handled, and Players / ConnectedPlayers before it
  lastLine, snapPlayers, snapCP, lastHandler,
  \* the errors counter with error_type "panic", and (history) where the
  \* handling of the last line panicked
  errPanic, lastFault,
  \* history: the counters incremented and the SDK calls made by the
  \* handling of the last line
  lineCalls,
  \* utils.CircuitBreaker: maxFailures, timeout (seconds), failures, isOpen,
  \* seconds since lastFailure counted up to MaxSince, read locks held
  cbMax, cbTimeout, cbFailures, cbIsOpen, cbSince, cbReaders,
  \* the CircuitBreaker's caller: its position, the call that returned last
  \* and its return value
  cbPc, cbDone, cbRet,
  \* history: calls made, RecordFailure calls since the breaker was new or reset
  cbCalls, cbStreak,
  \* the parser under test: its input, whether it ran, its result
  pLine, pDone, pResult,
  \* the monolithic wrapper (agones/main.go): position of main in
  \* manageServerLifecycle, of the signal handler, state of the child
  \* process, root context cancelled, signals held by serverReady
  mlPc, mlSigPc, mlChild, mlCtxDone, mlReady,
  \* the monolithic wrapper: s.Shutdown() calls by caller
  mlShutdown,
  \* history: the root context was cancelled when the child exited
  mlCtxAtExit,
  \* the startup sequence of the monolithic wrapper: s.Ready() calls made by
  \* waitForServerReady, handleReservation started, and (history) the case
  \* of waitForServerReady's select that was taken
  mlSdkReady, mlReserve, mlWon,
  \* handleReservation of the monolithic wrapper: the loop's position, and
  \* (history) the outcomes of its s.Reserve() calls
  mlResPc, mlResLog,
  \* handleServerOutput of the monolithic wrapper: the position of the
  \* goroutine that handles the child's output, state.ready, the goroutines
  \* started by "[S_API FAIL]" lines that have not yet called s.Ready();
  \* history: the lines handled, the s.Ready() calls of those goroutines
  mlOutPc, mlStateReady, mlApi, mlOutLines, mlApiReady,
  \* the ServerState lock (sync.RWMutex): the task holding it for writing,
  \* the tasks holding it for reading
  lkWriter, lkReaders,
  \* the lock's users: the routine each task runs and its position in it
  lkRoutine, lkPc,
  \* history: routines started; the last access to a mutable ServerState
  \* field and the last SDK call, each with the lock mode its task held
  lkRuns, lkAccess, lkSdk,
  \* MonitorSystemResources: the loop's position, the number of tokens in
  \* the metricsPool channel, its ticks so far, the context it was given
  msrPc, metricsPool, msrTicks, msrCtxDone,
  \* the sampling goroutines: created and not yet running, inside
  \* updateSystemMetrics, returned and about to give their token back
  wkStarted, wkRunning, wkReleasing,
  \* history: ticks whose sample was skipped
  msrSkips,
  \* the periodic tasks: the root context, what each task is running and
  \* its position in it, the ServerState lock, the length of the
  \* perfUpdates channel
  lpCtxDone, lpRoutine, lpPc, lpWriter, lpReaders, lpPerf,
  \* utils.RateLimiter: the operation asked for, the tokens of its limiter
  \* in tenths of a second of refill, the clock in tenths of a second, what
  \* the last Allow returned; history: the times of the calls allowed, the
  \* pauses between calls
  rlOp, rlTokens, rlNow, rlRet, rlGrants, rlSleeps,
  \* CcTimeSession.ExecuteAsync: the configured SessionTimeMinutes, the
  \* position in the loop, remainingSeconds, the sleepInterval chosen, the
  \* stopping token cancelled; history: the seconds slept so far, the
  \* "Fin de session" messages broadcast
  ctsMinutes, ctsPc, remainingSeconds, sleepInterval, stoppingToken, ctsSlept, ctsFin,
  \* session.SessionManager: maxHistory, current, history, the number of
  \* values held by the transitions channel; the position of the caller of
  \* StartNewSession and of a caller of GetCurrentSession; history: the
  \* calls of StartNewSession begun, those that ended in a panic, the
  \* transition sent last and the type of the session it replaced
  smMaxHistory, smCurrent, smHistory, smTransitions, smPc, smReaderPc, smStarts, smFaults, smLast, smPrev,
  \* the ServerState lock of the monolithic wrapper (sync.RWMutex): read
  \* locks held, write lock held, a Lock() call waiting; the positions of
  \* monitorMetrics and doHealth; history: the ticks each has taken
  rwReaders, rwWriter, rwPending, mtPc, dhPc, mtTicks, dhTicks

stateVars == <<Ready, ShuttingDown, Players, ConnectedPlayers, pingAge>>

procVars == <<serverReady, ctxDone, outPc, healthPc, sigPc, mainPc, mmPc, resPc,
              nLines, resp, sdkShutdown, sdkReady>>

histVars == <<readyFires, readyOffers, sessionEndDone>>

metricVars == <<playersGauge>>

healthHist == <<tickWrotePing>>

snapVars == <<lastLine, snapPlayers, snapCP, lastHandler, errPanic, lastFault,
              lineCalls>>

cbVars == <<cbMax, cbTimeout, cbFailures, cbIsOpen, cbSince, cbReaders,
            cbPc, cbDone, cbRet, cbCalls, cbStreak>>

parseVars == <<pLine, pDone, pResult>>

startVars == <<mlSdkReady, mlReserve, mlWon>>

reserveVars == <<mlResPc, mlResLog>>

monoOutVars == <<mlOutPc, mlStateReady, mlApi, mlOutLines, mlApiReady>>

monoVars == <<mlPc, mlSigPc, mlChild, mlCtxDone, mlReady, mlShutdown, mlCtxAtExit,
              startVars, reserveVars,
             monoOutVars>>

lockVars == <<lkWriter, lkReaders, lkRoutine, lkPc, lkRuns, lkAccess, lkSdk>>

poolVars == <<msrPc, metricsPool, msrTicks, msrCtxDone, wkStarted, wkRunning,
              wkReleasing, msrSkips>>

loopVars == <<lpCtxDone, lpRoutine, lpPc, lpWriter, lpReaders, lpPerf>>

rlVars == <<rlOp, rlTokens, rlNow, rlRet, rlGrants, rlSleeps>>

sessVars == <<ctsMinutes, ctsPc, remainingSeconds, sleepInterval, stoppingToken, ctsSlept, ctsFin>>

smVars == <<smMaxHistory, smCurrent, smHistory, smTransitions, smPc, smReaderPc, smStarts, smFaults, smLast, smPrev>>

rwVars == <<rwReaders, rwWriter, rwPending, mtPc, dhPc, mtTicks, dhTicks>>

vars == <<stateVars, procVars, histVars, metricVars, healthHist, snapVars, cbVars,
          parseVars, monoVars, lockVars, poolVars, loopVars,
          rlVars,
          sessVars,
          smVars,
          rwVars>>

\* the modular wrapper's run
wrapperVars == <<stateVars, procVars, histVars, metricVars, healthHist, snapVars>>

\* the units modelled on their own
unitVars == <<cbVars, parseVars, monoVars, lockVars, poolVars, loopVars,
          rlVars,
          sessVars,
          smVars,
          rwVars>>

\* what the actions of one unit leave alone
exceptCB == <<wrapperVars, parseVars, monoVars, lockVars, poolVars, loopVars,
          rlVars,
          sessVars,
          smVars,
          rwVars>>

exceptParse == <<wrapperVars, cbVars, monoVars, lockVars, poolVars, loopVars,
          rlVars,
          sessVars,
          smVars,
          rwVars>>

exceptMono == <<wrapperVars, cbVars, parseVars, lockVars, poolVars, loopVars,
          rlVars,
          sessVars,
          smVars,
          rwVars>>

exceptLock == <<wrapperVars, cbVars, parseVars, monoVars, poolVars, loopVars,
          rlVars,
          sessVars,
          smVars,
          rwVars>>

exceptPool == <<wrapperVars, cbVars, parseVars, monoVars, lockVars, loopVars,
          rlVars,
          sessVars,
          smVars,
          rwVars>>

exceptLoops == <<wrapperVars, cbVars, parseVars, monoVars, lockVars, poolVars,
          rlVars,
          sessVars,
          smVars,
          rwVars>>

exceptRate == <<wrapperVars, cbVars, parseVars, monoVars, lockVars, poolVars, loopVars,
          sessVars,
          smVars,
          rwVars>>

exceptSession == <<wrapperVars, cbVars, parseVars, monoVars, lockVars, poolVars, loopVars, rlVars,
          smVars,
          rwVars>>

exceptSm == <<wrapperVars, cbVars, parseVars, monoVars, lockVars, poolVars, loopVars, rlVars, sessVars,
          rwVars>>

exceptRw == <<wrapperVars, cbVars, parseVars, monoVars, lockVars, poolVars, loopVars, rlVars, sessVars, smVars>>

\* who calls s.Shutdown(): handlers.gracefulShutdown, monitoring.gracefulShutdown,
\* the signal handler, waitForServerEnd
ShutdownCallers == {"handlers", "health", "signal", "main"}

\* ------------------------------------------------- initial conditions
\* main: serverState as built, the loops started, the child started, the
\* signal handler installed, main waiting in waitForServerEnd.
InitServer ==
  /\ Ready = FALSE
  /\ ShuttingDown = FALSE
  /\ Players = 0
  /\ ConnectedPlayers = [x \in {} |-> x]
  /\ pingAge = 0
  /\ serverReady = 0
  /\ ctxDone = FALSE
  /\ outPc = "idle"
  /\ healthPc = "wait"
  /\ sigPc = "wait"
  /\ mainPc = "wait"
  /\ mmPc = "wait"
  /\ resPc = "wait"
  /\ nLines = 0
  /\ resp = "none"
  /\ sdkShutdown = [c \in ShutdownCallers |-> 0]
  /\ sdkReady = 0
  /\ readyFires = 0
  /\ readyOffers = 0
  /\ sessionEndDone = FALSE
  /\ playersGauge = 0
  /\ tickWrotePing = FALSE
  /\ lastLine = <<>>
  /\ snapPlayers = 0
  /\ snapCP = [x \in {} |-> x]
  /\ lastHandler = "none"
  /\ errPanic = 0
  /\ lastFault = "none"
  /\ lineCalls = {}

\* NewCircuitBreaker(maxFailures, timeout): failures 0, isOpen false,
\* lastFailure the zero time (long ago), nobody holding the lock.
NewCircuitBreaker(maxFailures, timeout) ==
  /\ cbMax = maxFailures
  /\ cbTimeout = timeout
  /\ cbFailures = 0
  /\ cbIsOpen = FALSE
  /\ cbSince = MaxSince
  /\ cbReaders = 0
  /\ cbPc = "idle"
  /\ cbDone = "none"
  /\ cbRet = FALSE
  /\ cbCalls = 0
  /\ cbStreak = 0

InitBreakerIdle == NewCircuitBreaker(1, 1)

\* types.Player{}
NoPlayer == [Name |-> <<>>, SteamID |-> <<>>, CarModel |-> <<>>]

InitParseIdle ==
  /\ pLine = <<>>
  /\ pDone = FALSE
  /\ pResult = NoPlayer

\* agones/main.go, main: the child started, the signal handler installed,
\* main entering manageServerLifecycle
InitMonoIdle ==
  /\ mlPc = "waitForServerReady"
  /\ mlSigPc = "wait"
  /\ mlChild = "running"
  /\ mlCtxDone = FALSE
  /\ mlReady = 0
  /\ mlShutdown = [c \in {"ready", "exit", "signal"} |-> 0]
  /\ mlCtxAtExit = FALSE
  /\ mlSdkReady = 0
  /\ mlReserve = FALSE
  /\ mlWon = "none"
  /\ mlResPc = "off"
  /\ mlResLog = <<>>
  /\ mlOutPc = "idle"
  /\ mlStateReady = FALSE
  /\ mlApi = 0
  /\ mlOutLines = 0
  /\ mlApiReady = 0

\* the tasks that use the ServerState lock: the goroutine that handles the
\* child's output, MonitorMetrics, DoHealth
LockTasks == {"output", "metrics", "health"}

\* the ServerState lock free, every task between two routines
InitLockIdle ==
  /\ lkWriter = "none"
  /\ lkReaders = {}
  /\ lkRoutine = [t \in LockTasks |-> "none"]
  /\ lkPc = [t \in LockTasks |-> 0]
  /\ lkRuns = 0
  /\ lkAccess = [task |-> "none", field |-> "none", kind |-> "none", held |-> "none"]
  /\ lkSdk = [task |-> "none", call |-> "none", held |-> "none"]

\* MonitorSystemResources about to enter its loop: metricsPool empty
InitPoolIdle ==
  /\ msrPc = "select"
  /\ metricsPool = 0
  /\ msrTicks = 0
  /\ msrCtxDone = FALSE
  /\ wkStarted = 0
  /\ wkRunning = 0
  /\ wkReleasing = 0
  /\ msrSkips = 0

\* the periodic tasks that are given the root context
LoopTasks ==
  {"DoHealth", "MonitorMetrics", "MonitorSystemResources", "handleReservation",
   "collectHighFrequencyMetrics", "collectLowFrequencyMetrics", "processMetrics"}

\* the periodic tasks and the goroutine that handles the child's output
LpTasks == LoopTasks \cup {"output"}

\* every task at the select of its loop, the root context live
InitLoopsIdle ==
  /\ lpCtxDone = FALSE
  /\ lpRoutine = [t \in LpTasks |-> "select"]
  /\ lpPc = [t \in LpTasks |-> 0]
  /\ lpWriter = "none"
  /\ lpReaders = {}
  /\ lpPerf = 0

InitRateIdle ==
  /\ rlOp = "health"
  /\ rlTokens = 0
  /\ rlNow = 0
  /\ rlRet = "none"
  /\ rlGrants = <<>>
  /\ rlSleeps = 0

InitSessionIdle ==
  /\ ctsMinutes = 30
  /\ ctsPc = "for"
  /\ remainingSeconds = 1800
  /\ sleepInterval = 0
  /\ stoppingToken = FALSE
  /\ ctsSlept = 0
  /\ ctsFin = 0

\* sm.current == nil
NilSession == [Id |-> 0, Type |-> "nil", EndTime |-> FALSE]

InitSmIdle ==
  /\ smMaxHistory = 1
  /\ smCurrent = NilSession
  /\ smHistory = <<>>
  /\ smTransitions = 0
  /\ smPc = "idle"
  /\ smReaderPc = "idle"
  /\ smStarts = 0
  /\ smFaults = 0
  /\ smLast = [From |-> "", To |-> ""]
  /\ smPrev = ""

InitRwIdle ==
  /\ rwReaders = 0
  /\ rwWriter = FALSE
  /\ rwPending = FALSE
  /\ mtPc = "select"
  /\ dhPc = "select"
  /\ mtTicks = 0
  /\ dhTicks = 0

InitUnits ==
  /\ InitBreakerIdle
  /\ InitParseIdle
  /\ InitMonoIdle
  /\ InitLockIdle
  /\ InitPoolIdle
  /\ InitLoopsIdle
  /\ InitRateIdle
  /\ InitSessionIdle
  /\ InitSmIdle
  /\ InitRwIdle

Init == InitServer /\ InitUnits

\* ------------------------------------------------------------ helpers
\* The process is running: main has not returned or called log.Fatalf.
Alive == mainPc # "exit"

\* map[string]*Player
Put(m, k, v) == [x \in (DOMAIN m) \cup {k} |-> IF x = k THEN v ELSE m[x]]

Delete(m, k) == [x \in (DOMAIN m) \ {k} |-> m[x]]

EmptyMap == [x \in {} |-> x]

\* ------------------------------------- handlers: HandleServerOutput
\* The switch of HandleServerOutput: one test per case, in the order of
\* the source, with the handler each case calls.
Rules(output) ==
  << <<Contains(output, "is attempting to connect"), "handleAttemptingToConnect">>,
     <<Contains(output, "supports extra CSP features"), "handleExtraCSPFeatures">>,
     <<Contains(output, "Starting Assetto Corsa Server..."), "handleServerStarting">>,
     <<Contains(output, "Lobby registration successful"), "handleServerReady">>,
     <<Contains(output, "End of session"), "handleSessionEnd">>,
     <<Contains(output, "has connected"), "handlePlayerConnect">>,
     <<Contains(output, "has disconnected"), "handlePlayerDisconnect">>,
     <<Contains(output, "Next session:"), "handleSessionChange">>,
     <<Contains(output, "[ERR]"), "handleError">>,
     <<Contains(output, "Steam authentication succeeded"), "handleSteamAuth">>,
     <<Contains(output, "Network stats"), "handleNetworkStats">>,
     <<Contains(output, "steamclient.so") \/ Contains(output, "SteamAPI"), "handleSteamError">>,
     <<Contains(output, "AssettoServer"), "handleServerVersion">>,
     <<Contains(output, "Loading") /\ Contains(output, ".ini"), "handleConfigLoading">>,
     <<Contains(output, "Loaded plugin"), "handlePluginLoading">>,
     <<Contains(output, "AI Slot"), "handleAISlotUpdate">>,
     <<Contains(output, "Added checksum"), "handleChecksumUpdate">>,
     <<Contains(output, "Server invite link:"), "handleServerInvite">>,
     <<Contains(output, "Switching session to id"), "handleSessionSwitch">>,
     <<Contains(output, "Starting TCP server"), "handleTCPServer">>,
     <<Contains(output, "Starting UDP server"), "handleUDPServer">>,
     <<Contains(output, "Remaining time of session"), "handleSessionTime">>,
     <<Contains(output, "Registering server to lobby"), "handleLobbyRegistration">>,
     <<Contains(output, "Starting update loop"), "handleUpdateLoop">>,
     <<Contains(output, "Lobby registration successful"), "handleLobbySuccess">>,
     <<Contains(output, "Loading extra_cfg.yml"), "handleConfigLoading">>,
     <<Contains(output, "Using minimum required CSP Version"), "handleCSPVersion">>,
     <<Contains(output, "Cached AI spline"), "handleAISpline">>,
     <<Contains(output, "Adjacent lane detection"), "handleAILaneDetection">>,
     <<Contains(output, "Writing cached AI spline"), "handleAISplineCache">>,
     <<Contains(output, "Mapping cached AI spline"), "handleAISplineMapping">>,
     <<Contains(output, "Storing keys in a directory"), "handleKeysStorage">>,
     <<Contains(output, "No XML encryptor configured"), "handleXMLEncryption">>,
     <<Contains(output, "Loaded blacklist.txt"), "handleBlacklistLoading">>,
     <<Contains(output, "Loaded whitelist.txt"), "handleWhitelistLoading">>,
     <<Contains(output, "Loaded admins.txt"), "handleAdminsLoading">>,
     <<Contains(output, "Connected to Steam Servers"), "handleSteamConnection">>,
     <<Contains(output, "CSP handshake received"), "handleCSPHandshake">>,
     <<Contains(output, "CHAT:"), "handleChatMessage">>,
     <<Contains(output, "Received clean exit"), "handleCleanExit">> >>

\* A switch that runs the last case whose test holds.
HandlerLastMatch(output) ==
  LET r == Rules(output)
      hits == {i \in 1..Len(r) : r[i][1]}
  IN  IF hits = {} THEN "unhandled"
      ELSE r[CHOOSE i \in hits : \A j \in hits : i >= j][2]

\* The handler the switch runs for a line: that of the first case whose test
\* holds, "unhandled" (the default case) when none does.
Handler(output) ==
  LET r == Rules(output)
      hits == {i \in 1..Len(r) : r[i][1]}
  IN  IF hits = {} THEN "unhandled"
      ELSE r[CHOOSE i \in hits : \A j \in hits : i <= j][2]

\* Where the handling of a line panics: not at all, with the ServerState
\* lock free, or with the lock held.  strings.Split(s, sep)[1] panics when
\* sep is not in s; a metric vector's With panics when it is given a label
\* set that is not the one the vector was declared with.
PanicSite(output) ==
  LET h == Handler(output)
  IN  CASE h \in {"handleTCPServer", "handleUDPServer"} ->
             \* strings.Split(output, "port")[1], no lock taken
             IF Contains(output, "port") THEN "none" ELSE "unlocked"
        [] h = "handleSessionTime" ->
             \* strings.Split(output, "session :")[1], before state.Lock()
             IF Contains(output, "session :") THEN "none" ELSE "unlocked"
        [] h = "handleUpdateLoop" ->
             \* strings.Split(output, "rate of")[1], no lock taken
             IF Contains(output, "rate of") THEN "none" ELSE "unlocked"
        [] h = "handleSessionSwitch" ->
             \* strings.Split(output, "id")[1]: the text of the case holds "id"
             "none"
        [] h = "handleConfigLoading" ->
             \* ServerErrorsCounter.With(labels) without error_type
             "unlocked"
        [] h = "handlePlayerConnect" ->
             \* after addPlayer: PlayerLatencyGauge.With(playerLabels) with
             \* car_name, which the vector does not declare
             IF ExtractPlayerInfo(output).SteamID = <<>> THEN "none" ELSE "unlocked"
        [] OTHER -> "none"

\* What the handling of a player line reaches besides ServerState: the
\* connect / disconnect counters and updatePlayerCount (s.SetAnnotation).
\* handlePlayerConnect returns before all of them without a steam id, and
\* panics between PlayerConnectCounter and updatePlayerCount with one.
LineCalls(output) ==
  LET h == Handler(output)
  IN  CASE h = "handlePlayerConnect" ->
             IF ExtractPlayerInfo(output).SteamID = <<>>
             THEN {}
             ELSE {"PlayerConnectCounter"}
        [] h = "handlePlayerDisconnect" ->
             {"PlayerDisconnectCounter", "SetAnnotation"}
        [] OTHER -> {}

\* The context that the cancel function handed to handleSessionEnd cancels.
\* HandleServerOutput assigns its parameter cancel anew ("ctx, cancel :=
\* context.WithTimeout(...)"), so the handlers cancel that local context,
\* never the root context of main.
HandlerCancelsRoot == FALSE

\* what the handlers' critical sections write
handlerVars == <<Ready, ShuttingDown, Players, ConnectedPlayers, outPc, readyFires,
                playersGauge>>

\* addPlayer
addPlayer(player) ==
  /\ ConnectedPlayers' = Put(ConnectedPlayers, player.SteamID, player)
  /\ Players' = Players + 1

\* A removePlayer that decrements Players whatever its value.
removePlayerAlwaysDecrements(steamID) ==
  /\ ConnectedPlayers' = Delete(ConnectedPlayers, steamID)
  /\ Players' = Players - 1

\* removePlayer
removePlayer(steamID) ==
  /\ ConnectedPlayers' = Delete(ConnectedPlayers, steamID)
  /\ Players' = IF Players > 0 THEN Players - 1 ELSE Players

\* handleServerStarting
handleServerStarting ==
  /\ Ready' = FALSE
  /\ ShuttingDown' = FALSE
  /\ UNCHANGED <<Players, ConnectedPlayers, outPc, readyFires, playersGauge>>

\* handleServerReady, its critical section: nothing to do when already Ready
handleServerReady ==
  IF Ready
  THEN UNCHANGED handlerVars
  ELSE /\ Ready' = TRUE
       /\ readyFires' = readyFires + 1
       /\ outPc' = "readySend"
       /\ UNCHANGED <<ShuttingDown, Players, ConnectedPlayers, playersGauge>>

\* A session end that marks the shutdown and leaves the players in place.
handleSessionEndKeepsPlayers ==
  IF ShuttingDown
  THEN UNCHANGED handlerVars
  ELSE /\ ShuttingDown' = TRUE
       /\ playersGauge' = 0
       /\ outPc' = "endLock"
       /\ UNCHANGED <<Ready, readyFires, Players, ConnectedPlayers>>

\* handleSessionEnd, its critical section: nothing to do when already
\* ShuttingDown; else mark it and drop every connected player.  The players
\* gauge is set to 0 on the way to gracefulShutdown.
handleSessionEnd ==
  IF ShuttingDown
  THEN UNCHANGED handlerVars
  ELSE /\ ShuttingDown' = TRUE
       /\ ConnectedPlayers' = EmptyMap
       /\ Players' = 0
       /\ playersGauge' = 0
       /\ outPc' = "endLock"
       /\ UNCHANGED <<Ready, readyFires>>

\* A handlePlayerConnect that adds whatever ExtractPlayerInfo returned.
handlePlayerConnectAnyId(output) ==
  LET player == ExtractPlayerInfo(output)
  IN  /\ addPlayer(player)
      /\ playersGauge' = Players'
      /\ UNCHANGED <<Ready, ShuttingDown, outPc, readyFires>>

\* handlePlayerConnect: a line without a steam id is dropped; else the
\* player is added and the players gauge set to state.Players
handlePlayerConnect(output) ==
  LET player == ExtractPlayerInfo(output)
  IN  IF player.SteamID = <<>>
      THEN UNCHANGED handlerVars
      ELSE /\ addPlayer(player)
           /\ playersGauge' = Players'
           /\ UNCHANGED <<Ready, ShuttingDown, outPc, readyFires>>

\* handlePlayerDisconnect: the player is removed and the players gauge set
\* to state.Players
handlePlayerDisconnect(output) ==
  /\ removePlayer(ExtractSteamID(output))
  /\ playersGauge' = Players'
  /\ UNCHANGED <<Ready, ShuttingDown, outPc, readyFires>>

\* The interceptor of prepareServerCommand calls HandleServerOutput with
\* what the child wrote: the switch and the first critical section of the
\* handler it selects.
HandleServerOutput(output) ==
  /\ Alive
  /\ outPc = "idle"
  /\ nLines < MaxLines
  /\ nLines' = nLines + 1
  /\ LET h == Handler(output)
     IN  CASE h = "handleServerStarting"   -> handleServerStarting
           [] h = "handleServerReady"      -> handleServerReady
           [] h = "handleSessionEnd"       -> handleSessionEnd
           [] h = "handlePlayerConnect"    -> handlePlayerConnect(output)
           [] h = "handlePlayerDisconnect" -> handlePlayerDisconnect(output)
           [] OTHER -> UNCHANGED handlerVars
  /\ UNCHANGED <<pingAge, serverReady, ctxDone, healthPc, sigPc, mainPc, mmPc, resPc,
                 resp, sdkShutdown, sdkReady, readyOffers, sessionEndDone, healthHist>>

\* a send that puts the signal in the channel whatever it holds
SendAlways(len) == len + 1

\* select { case serverReady <- struct{}{}: default: } on the channel of
\* capacity 1: the signal is buffered when there is room, dropped otherwise
SendOrDrop(len) == IF len < 1 THEN len + 1 ELSE len

\* handleServerReady, after its critical section: the non-blocking send on
\* serverReady (select with a default case)
ReadySend ==
  /\ Alive
  /\ outPc = "readySend"
  /\ serverReady' = SendOrDrop(serverReady)
  /\ readyOffers' = readyOffers + 1
  /\ outPc' = "idle"
  /\ UNCHANGED <<stateVars, ctxDone, healthPc, sigPc, mainPc, mmPc, resPc, nLines,
                 resp, sdkShutdown, sdkReady, readyFires, sessionEndDone>>
  /\ UNCHANGED <<metricVars, healthHist, snapVars, unitVars>>

\* handlers.gracefulShutdown called by handleSessionEnd: its critical section
EndLock ==
  /\ Alive
  /\ outPc = "endLock"
  /\ ShuttingDown' = TRUE
  /\ outPc' = "endSdk"
  /\ UNCHANGED <<Ready, Players, ConnectedPlayers, pingAge, serverReady, ctxDone,
                 healthPc, sigPc, mainPc, mmPc, resPc, nLines, resp, sdkShutdown,
                 sdkReady, readyFires, readyOffers, sessionEndDone>>
  /\ UNCHANGED <<metricVars, healthHist, snapVars, unitVars>>

\* handlers.gracefulShutdown: s.Shutdown()
EndSdk ==
  /\ Alive
  /\ outPc = "endSdk"
  /\ sdkShutdown' = [sdkShutdown EXCEPT !["handlers"] = @ + 1]
  /\ outPc' = "endSleep"
  /\ UNCHANGED <<stateVars, serverReady, ctxDone, healthPc, sigPc, mainPc, mmPc,
                 resPc, nLines, resp, sdkReady, histVars>>
  /\ UNCHANGED <<metricVars, healthHist, snapVars, unitVars>>

\* handlers.gracefulShutdown: time.Sleep(time.Second); cancel()
EndCancel ==
  /\ Alive
  /\ outPc = "endSleep"
  /\ ctxDone' = (ctxDone \/ HandlerCancelsRoot)
  /\ sessionEndDone' = TRUE
  /\ outPc' = "idle"
  /\ UNCHANGED <<stateVars, serverReady, healthPc, sigPc, mainPc, mmPc, resPc,
                 nLines, resp, sdkShutdown, sdkReady, readyFires, readyOffers>>
  /\ UNCHANGED <<metricVars, healthHist, snapVars, unitVars>>

\* --------------------------------------------- monitoring: DoHealth
\* A DoHealth whose cancel function is not the root context's.
HealthCancelsOther == FALSE

\* The context that the cancel function handed to DoHealth cancels: main
\* passes the root context's cancel.
HealthCancelsRoot == TRUE

\* DoHealth, a tick: LastPing = time.Now() in its critical section, before
\* s.Health() is called.  A select
\* with both the tick and ctx.Done() ready may take either.
HealthTick ==
  /\ Alive
  /\ healthPc = "wait"
  /\ pingAge' = 0
  /\ healthPc' = "ping"
  /\ UNCHANGED <<Ready, ShuttingDown, Players, ConnectedPlayers, serverReady, ctxDone,
                 outPc, sigPc, mainPc, mmPc, resPc, nLines, resp, sdkShutdown,
                 sdkReady, histVars>>
  /\ tickWrotePing' = TRUE
  /\ UNCHANGED <<metricVars, snapVars, unitVars>>

\* DoHealth: s.Health() returns nil
HealthOk ==
  /\ Alive
  /\ healthPc = "ping"
  /\ healthPc' = "wait"
  /\ UNCHANGED <<stateVars, serverReady, ctxDone, outPc, sigPc, mainPc, mmPc, resPc,
                 nLines, resp, sdkShutdown, sdkReady, histVars>>
  /\ tickWrotePing' = FALSE
  /\ UNCHANGED <<metricVars, snapVars, unitVars>>

\* DoHealth: s.Health() returns an error; monitoring.gracefulShutdown's
\* critical section follows
HealthFail ==
  /\ Alive
  /\ healthPc = "ping"
  /\ ShuttingDown' = TRUE
  /\ healthPc' = "sdk"
  /\ UNCHANGED <<Ready, Players, ConnectedPlayers, pingAge, serverReady, ctxDone,
                 outPc, sigPc, mainPc, mmPc, resPc, nLines, resp, sdkShutdown,
                 sdkReady, readyFires, readyOffers, sessionEndDone>>
  /\ UNCHANGED <<metricVars, healthHist, snapVars, unitVars>>

\* monitoring.gracefulShutdown: s.Shutdown()
HealthSdk ==
  /\ Alive
  /\ healthPc = "sdk"
  /\ sdkShutdown' = [sdkShutdown EXCEPT !["health"] = @ + 1]
  /\ healthPc' = "sleep"
  /\ UNCHANGED <<stateVars, serverReady, ctxDone, outPc, sigPc, mainPc, mmPc, resPc,
                 nLines, resp, sdkReady, histVars>>
  /\ UNCHANGED <<metricVars, healthHist, snapVars, unitVars>>

\* monitoring.gracefulShutdown: time.Sleep(time.Second); cancel(); DoHealth returns
HealthCancel ==
  /\ Alive
  /\ healthPc = "sleep"
  /\ ctxDone' = (ctxDone \/ HealthCancelsRoot)
  /\ healthPc' = "done"
  /\ UNCHANGED <<stateVars, serverReady, outPc, sigPc, mainPc, mmPc, resPc, nLines,
                 resp, sdkShutdown, sdkReady, histVars>>
  /\ UNCHANGED <<metricVars, healthHist, snapVars, unitVars>>

\* DoHealth: case <-ctx.Done(): return
HealthExit ==
  /\ Alive
  /\ healthPc = "wait"
  /\ ctxDone
  /\ healthPc' = "done"
  /\ UNCHANGED <<stateVars, serverReady, ctxDone, outPc, sigPc, mainPc, mmPc, resPc,
                 nLines, resp, sdkShutdown, sdkReady, histVars>>
  /\ UNCHANGED <<metricVars, healthHist, snapVars, unitVars>>

\* ------------------------- monitoring: MonitorMetrics, MonitorSystemResources
\* MonitorMetrics: case <-ctx.Done(): return
MetricsExit ==
  /\ Alive
  /\ mmPc = "wait"
  /\ ctxDone
  /\ mmPc' = "done"
  /\ UNCHANGED <<stateVars, serverReady, ctxDone, outPc, healthPc, sigPc, mainPc,
                 resPc, nLines, resp, sdkShutdown, sdkReady, histVars>>
  /\ UNCHANGED <<metricVars, healthHist, snapVars, unitVars>>

\* MonitorSystemResources: case <-ctx.Done(): return
ResourcesExit ==
  /\ Alive
  /\ resPc = "wait"
  /\ ctxDone
  /\ resPc' = "done"
  /\ UNCHANGED <<stateVars, serverReady, ctxDone, outPc, healthPc, sigPc, mainPc,
                 mmPc, nLines, resp, sdkShutdown, sdkReady, histVars>>
  /\ UNCHANGED <<metricVars, healthHist, snapVars, unitVars>>

\* ------------------------------------------------ main: the signal handler
\* setupSignalHandler's goroutine: a signal arrives; its critical section
SignalArrives ==
  /\ Alive
  /\ sigPc = "wait"
  /\ ShuttingDown' = TRUE
  /\ sigPc' = "sdk"
  /\ UNCHANGED <<Ready, Players, ConnectedPlayers, pingAge, serverReady, ctxDone,
                 outPc, healthPc, mainPc, mmPc, resPc, nLines, resp, sdkShutdown,
                 sdkReady, readyFires, readyOffers, sessionEndDone>>
  /\ UNCHANGED <<metricVars, healthHist, snapVars, unitVars>>

\* the signal handler: s.Shutdown()
SignalSdk ==
  /\ Alive
  /\ sigPc = "sdk"
  /\ sdkShutdown' = [sdkShutdown EXCEPT !["signal"] = @ + 1]
  /\ sigPc' = "sleep"
  /\ UNCHANGED <<stateVars, serverReady, ctxDone, outPc, healthPc, mainPc, mmPc,
                 resPc, nLines, resp, sdkReady, histVars>>
  /\ UNCHANGED <<metricVars, healthHist, snapVars, unitVars>>

\* the signal handler: time.Sleep(timeout); cancel()
SignalCancel ==
  /\ Alive
  /\ sigPc = "sleep"
  /\ ctxDone' = TRUE
  /\ sigPc' = "done"
  /\ UNCHANGED <<stateVars, serverReady, outPc, healthPc, mainPc, mmPc, resPc,
                 nLines, resp, sdkShutdown, sdkReady, histVars>>
  /\ UNCHANGED <<metricVars, healthHist, snapVars, unitVars>>

\* ------------------------------------------------------------- main
\* waitForServerEnd: case <-serverReady; s.Ready() succeeds
MainReady ==
  /\ mainPc = "wait"
  /\ serverReady > 0
  /\ serverReady' = serverReady - 1
  /\ sdkReady' = sdkReady + 1
  /\ mainPc' = "serve"
  /\ UNCHANGED <<stateVars, ctxDone, outPc, healthPc, sigPc, mmPc, resPc, nLines,
                 resp, sdkShutdown, histVars>>
  /\ UNCHANGED <<metricVars, healthHist, snapVars, unitVars>>

\* waitForServerEnd: case <-serverReady; s.Ready() fails and log.Fatalf ends
\* the process
MainReadyFatal ==
  /\ mainPc = "wait"
  /\ serverReady > 0
  /\ serverReady' = serverReady - 1
  /\ sdkReady' = sdkReady + 1
  /\ mainPc' = "exit"
  /\ UNCHANGED <<stateVars, ctxDone, outPc, healthPc, sigPc, mmPc, resPc, nLines,
                 resp, sdkShutdown, histVars>>
  /\ UNCHANGED <<metricVars, healthHist, snapVars, unitVars>>

\* waitForServerEnd: case <-time.After(reserveDuration); s.Shutdown()
MainTimeout ==
  /\ mainPc = "wait"
  /\ sdkShutdown' = [sdkShutdown EXCEPT !["main"] = @ + 1]
  /\ mainPc' = "serve"
  /\ UNCHANGED <<stateVars, serverReady, ctxDone, outPc, healthPc, sigPc, mmPc,
                 resPc, nLines, resp, sdkReady, histVars>>
  /\ UNCHANGED <<metricVars, healthHist, snapVars, unitVars>>

\* waitForServerEnd: case <-ctx.Done()
MainCtxDone ==
  /\ mainPc = "wait"
  /\ ctxDone
  /\ mainPc' = "serve"
  /\ UNCHANGED <<stateVars, serverReady, ctxDone, outPc, healthPc, sigPc, mmPc,
                 resPc, nLines, resp, sdkShutdown, sdkReady, histVars>>
  /\ UNCHANGED <<metricVars, healthHist, snapVars, unitVars>>

\* main returns after starting the health server: the deferred cancel() runs
\* and the process ends
MainReturn ==
  /\ mainPc = "serve"
  /\ ctxDone' = TRUE
  /\ mainPc' = "exit"
  /\ UNCHANGED <<stateVars, serverReady, outPc, healthPc, sigPc, mmPc, resPc,
                 nLines, resp, sdkShutdown, sdkReady, histVars>>
  /\ UNCHANGED <<metricVars, healthHist, snapVars, unitVars>>

\* A /health handler that leaves the shutting-down condition out.
HealthAnswerNoShutdown(ready, age, shuttingDown) ==
  IF ~ready THEN "Server not ready"
  ELSE IF ~(age < HealthThresholdSec) THEN "Health check timeout"
  ELSE "OK"

\* The /health handler: the first condition that fails gives the 503 body,
\* in the order of the conditions slice; "OK" (200) when none fails.
HealthAnswer(ready, age, shuttingDown) ==
  LET conditions == << <<ready, "Server not ready">>,
                       <<age < HealthThresholdSec, "Health check timeout">>,
                       <<~shuttingDown, "Server is shutting down">> >>
      failing == {i \in 1..Len(conditions) : ~conditions[i][1]}
  IN  IF failing = {} THEN "OK"
      ELSE conditions[CHOOSE i \in failing : \A j \in failing : i <= j][2]

\* GET /health arrives, once main has registered the handler
ProbeRequest ==
  /\ mainPc = "serve"
  /\ resp # "pending"
  /\ resp' = "pending"
  /\ UNCHANGED <<stateVars, serverReady, ctxDone, outPc, healthPc, sigPc, mainPc,
                 mmPc, resPc, nLines, sdkShutdown, sdkReady, histVars>>
  /\ UNCHANGED <<metricVars, healthHist, snapVars, unitVars>>

\* the /health handler answers, in one critical section (RLock)
ProbeServe ==
  /\ mainPc = "serve"
  /\ resp = "pending"
  /\ resp' = HealthAnswer(Ready, pingAge, ShuttingDown)
  /\ UNCHANGED <<stateVars, serverReady, ctxDone, outPc, healthPc, sigPc, mainPc,
                 mmPc, resPc, nLines, sdkShutdown, sdkReady, histVars>>
  /\ UNCHANGED <<metricVars, healthHist, snapVars, unitVars>>

\* a second passes
Tick ==
  /\ Alive
  /\ pingAge < MaxAge
  /\ pingAge' = pingAge + 1
  /\ UNCHANGED <<Ready, ShuttingDown, Players, ConnectedPlayers, procVars, histVars>>
  /\ UNCHANGED <<metricVars, healthHist, snapVars, unitVars>>

\* ------------------------------------------- the child's output
\* The interceptor hands one line to HandleServerOutput.  With traced, the
\* history of the last line handled is kept.
Write(output, traced) ==
  /\ HandleServerOutput(output)
  /\ IF traced
     THEN /\ lastLine' = output
          /\ snapPlayers' = Players
          /\ snapCP' = ConnectedPlayers
          /\ lastHandler' = Handler(output)
          /\ lastFault' = PanicSite(output)
          /\ errPanic' = IF PanicSite(output) = "none" THEN errPanic ELSE errPanic + 1
          /\ lineCalls' = LineCalls(output)
     ELSE UNCHANGED snapVars
  /\ UNCHANGED unitVars

WriteStarting(traced) == Write(StartingLine, traced)

WriteLobby(traced) == Write(LobbyLine, traced)

WriteEnd(traced) == Write(EndLine, traced)

WriteUnhandled(traced) == Write(UnhandledLine, traced)

WriteConnect(traced) ==
  \E n \in PlayerNames, c \in Cars : Write(ConnectLine(n, SteamIdOf(n), c), traced)

WriteConnectComma(traced) ==
  \E n \in PlayerNames, c \in Cars : Write(ConnectLineComma(n, SteamIdOf(n), c), traced)

WriteDisconnect(traced) ==
  \E n \in PlayerNames : Write(DisconnectLine(n, SteamIdOf(n)), traced)

WriteDisconnectComma(traced) ==
  \E n \in PlayerNames : Write(DisconnectLineComma(n, SteamIdOf(n)), traced)

WriteDisconnectNoId(traced) ==
  \E n \in PlayerNames : Write(DisconnectLineNoId(n), traced)

\* a line of a case whose handler indexes a field
WriteField(traced) == \E line \in FieldLines : Write(line, traced)

\* a chat line: the switch of HandleServerOutput sees the whole line, the
\* player's text included
WriteChat(traced) ==
  \E n \in PlayerNames, text \in ChatTexts : Write(ChatLine(n, text), traced)

\* interceptor.Write: one write of the child that holds two lines, the lobby
\* marker and a connect line, is handed over as one string
WriteChunk(traced) ==
  \E n \in PlayerNames, c \in Cars :
    Write(Chunk(LobbyLine, ConnectLineComma(n, SteamIdOf(n), c)), traced)

\* ------------------------------------------------- the specifications
\* The wrapper: the child's output, DoHealth, the signal handler, main, and
\* the exits of the metrics and resources loops.
Next ==
  \/ WriteStarting(FALSE)
  \/ WriteLobby(FALSE)
  \/ WriteEnd(FALSE)
  \/ WriteUnhandled(FALSE)
  \/ WriteConnect(FALSE)
  \/ WriteConnectComma(FALSE)
  \/ WriteDisconnect(FALSE)
  \/ WriteDisconnectComma(FALSE)
  \/ WriteDisconnectNoId(FALSE)
  \/ ReadySend
  \/ EndLock
  \/ EndSdk
  \/ EndCancel
  \/ HealthTick
  \/ HealthOk
  \/ HealthFail
  \/ HealthSdk
  \/ HealthCancel
  \/ HealthExit
  \/ MetricsExit
  \/ ResourcesExit
  \/ SignalArrives
  \/ SignalSdk
  \/ SignalCancel
  \/ MainReady
  \/ MainReadyFatal
  \/ MainTimeout
  \/ MainCtxDone
  \/ MainReturn

Spec == Init /\ [][Next]_vars

\* The output path alone, with the history of the last line handled.
NextOut ==
  \/ WriteStarting(TRUE)
  \/ WriteLobby(TRUE)
  \/ WriteEnd(TRUE)
  \/ WriteUnhandled(TRUE)
  \/ WriteConnect(TRUE)
  \/ WriteConnectComma(TRUE)
  \/ WriteDisconnect(TRUE)
  \/ WriteDisconnectComma(TRUE)
  \/ WriteDisconnectNoId(TRUE)
  \/ WriteChunk(TRUE)
  \/ WriteField(TRUE)
  \/ WriteChat(TRUE)
  \/ ReadySend
  \/ EndLock
  \/ EndSdk
  \/ EndCancel

SpecOut == Init /\ [][NextOut]_vars

\* The liveness endpoint with what writes the fields it reads: the child's
\* lifecycle lines, DoHealth, the signal handler, main, and the clock.
NextLive ==
  \/ WriteStarting(FALSE)
  \/ WriteLobby(FALSE)
  \/ WriteEnd(FALSE)
  \/ ReadySend
  \/ EndLock
  \/ EndSdk
  \/ EndCancel
  \/ HealthTick
  \/ HealthOk
  \/ HealthFail
  \/ HealthSdk
  \/ HealthCancel
  \/ HealthExit
  \/ SignalArrives
  \/ SignalSdk
  \/ SignalCancel
  \/ MainReady
  \/ MainReadyFatal
  \/ MainTimeout
  \/ MainCtxDone
  \/ MainReturn
  \/ ProbeRequest
  \/ ProbeServe
  \/ Tick

SpecLive == Init /\ [][NextLive]_vars

\* ------------------------------------------------- utils.CircuitBreaker
\* A breaker that opens one failure late.
OpensLate(failures, maxFailures) == failures > maxFailures

\* RecordFailure: cb.failures >= cb.maxFailures
Opens(failures, maxFailures) == failures >= maxFailures

\* IsOpen: time.Since(cb.lastFailure) > cb.timeout
Expired(since, timeout) == since > timeout

\* A caller enters RecordFailure and reaches cb.Lock().
CallRecordFailure ==
  /\ cbPc = "idle"
  /\ cbCalls < MaxCalls
  /\ cbPc' = "RecordFailure"
  /\ cbCalls' = cbCalls + 1
  /\ UNCHANGED <<cbMax, cbTimeout, cbFailures, cbIsOpen, cbSince, cbReaders,
                 cbDone, cbRet, cbStreak>>
  /\ UNCHANGED exceptCB

\* A caller enters Reset and reaches cb.Lock().
CallReset ==
  /\ cbPc = "idle"
  /\ cbCalls < MaxCalls
  /\ cbPc' = "Reset"
  /\ cbCalls' = cbCalls + 1
  /\ UNCHANGED <<cbMax, cbTimeout, cbFailures, cbIsOpen, cbSince, cbReaders,
                 cbDone, cbRet, cbStreak>>
  /\ UNCHANGED exceptCB

\* IsOpen, under cb.RLock(): false when the circuit is closed; true when it
\* is open and the timeout has not expired (the deferred RUnlock releases
\* the read lock on both returns); otherwise the caller goes on to
\* cb.Lock(), still holding its read lock.
IsOpen ==
  /\ cbPc = "idle"
  /\ cbCalls < MaxCalls
  /\ cbCalls' = cbCalls + 1
  /\ IF ~cbIsOpen
     THEN /\ cbRet' = FALSE
          /\ cbDone' = "IsOpen"
          /\ UNCHANGED <<cbPc, cbReaders>>
     ELSE IF Expired(cbSince, cbTimeout)
     THEN /\ cbPc' = "IsOpen.Lock"
          /\ cbReaders' = cbReaders + 1
          /\ UNCHANGED <<cbDone, cbRet>>
     ELSE /\ cbRet' = TRUE
          /\ cbDone' = "IsOpen"
          /\ UNCHANGED <<cbPc, cbReaders>>
  /\ UNCHANGED <<cbMax, cbTimeout, cbFailures, cbIsOpen, cbSince, cbStreak>>
  /\ UNCHANGED exceptCB

\* sync.RWMutex: cb.Lock() returns once no read lock is held.  The caller
\* then runs the rest of its method, unlocks and returns.
Locked ==
  /\ cbPc \in {"RecordFailure", "Reset", "IsOpen.Lock"}
  /\ cbReaders = 0
  /\ cbPc' = "idle"
  /\ CASE cbPc = "RecordFailure" ->
            LET open == cbIsOpen \/ Opens(cbFailures + 1, cbMax)
            IN  /\ cbFailures' = cbFailures + 1
                /\ cbSince' = 0
                /\ cbIsOpen' = open
                /\ cbRet' = open
                /\ cbDone' = "RecordFailure"
                /\ cbStreak' = cbStreak + 1
                /\ UNCHANGED cbReaders
       [] cbPc = "Reset" ->
            /\ cbFailures' = 0
            /\ cbIsOpen' = FALSE
            /\ cbDone' = "Reset"
            /\ cbStreak' = 0
            /\ UNCHANGED <<cbSince, cbRet, cbReaders>>
       [] cbPc = "IsOpen.Lock" ->
            /\ cbIsOpen' = FALSE
            /\ cbFailures' = 0
            /\ cbRet' = FALSE
            /\ cbDone' = "IsOpen"
            /\ cbStreak' = 0
            /\ cbReaders' = cbReaders - 1
            /\ UNCHANGED cbSince
  /\ UNCHANGED <<cbMax, cbTimeout, cbCalls>>
  /\ UNCHANGED exceptCB

\* one second passes
Elapse ==
  /\ cbSince < MaxSince
  /\ cbSince' = cbSince + 1
  /\ UNCHANGED <<cbMax, cbTimeout, cbFailures, cbIsOpen, cbReaders, cbPc, cbDone,
                 cbRet, cbCalls, cbStreak>>
  /\ UNCHANGED exceptCB

\* A breaker built with any threshold and timeout, and one caller.
InitCB ==
  /\ InitServer
  /\ InitParseIdle
  /\ InitMonoIdle
  /\ InitLockIdle
  /\ InitPoolIdle
  /\ InitLoopsIdle
  /\ InitRateIdle
  /\ InitSessionIdle
  /\ InitSmIdle
  /\ InitRwIdle
  /\ \E maxFailures \in 1..MaxThreshold, timeout \in 1..MaxCooldown :
       NewCircuitBreaker(maxFailures, timeout)

NextCB ==
  \/ CallRecordFailure
  \/ CallReset
  \/ IsOpen
  \/ Locked
  \/ Elapse

SpecCB == InitCB /\ [][NextCB]_vars

\* ------------------------------------------------- utils: the parsers
SteamIds == {SteamIdOf(n) : n \in PlayerNames}

ParseCars == Cars \cup {"bmw_m3"}

ParseTokens == {"Alice", " ", "(", ")", ",", "]", "has connected"}

RECURSIVE TokenSeqs(_)
TokenSeqs(n) ==
  IF n = 0 THEN {<<>>}
  ELSE LET shorter == TokenSeqs(n - 1)
       IN  shorter \cup {Append(q, t) : q \in {r \in shorter : Len(r) = n - 1},
                                        t \in ParseTokens}

\* the lines given to ExtractPlayerInfo: connect lines of both shapes, and
\* every line of at most MaxFreeLen tokens
ParseInputs ==
  {ConnectLine(n, id, c) : n \in PlayerNames, id \in SteamIds, c \in ParseCars}
    \cup {ConnectLineComma(n, id, c) : n \in PlayerNames, id \in SteamIds, c \in ParseCars}
    \cup TokenSeqs(MaxFreeLen)

Parse ==
  /\ ~pDone
  /\ pDone' = TRUE
  /\ pResult' = ExtractPlayerInfo(pLine)
  /\ UNCHANGED pLine
  /\ UNCHANGED exceptParse

InitParse ==
  /\ InitServer
  /\ InitBreakerIdle
  /\ InitMonoIdle
  /\ InitLockIdle
  /\ InitPoolIdle
  /\ InitLoopsIdle
  /\ InitRateIdle
  /\ InitSessionIdle
  /\ InitSmIdle
  /\ InitRwIdle
  /\ pLine \in ParseInputs
  /\ pDone = FALSE
  /\ pResult = NoPlayer

NextParse ==
  \/ Parse

SpecParse == InitParse /\ [][NextParse]_vars

\* ------------------------------ agones/main.go: manageServerLifecycle
\* handleServerOutput, "Lobby registration successful": state.ready is set
\* and the handler goes to its send on serverReady
MonoChildReady ==
  /\ mlPc # "exited"
  /\ mlChild = "running"
  /\ mlOutPc = "idle"
  /\ mlOutLines < MaxLines
  /\ mlOutLines' = mlOutLines + 1
  /\ mlStateReady' = TRUE
  /\ mlOutPc' = "send"
  /\ UNCHANGED <<mlApi, mlApiReady>>
  /\ UNCHANGED <<mlPc, mlSigPc, mlChild, mlCtxDone, mlReady, mlShutdown, mlCtxAtExit>>
  /\ UNCHANGED <<startVars, reserveVars, exceptMono>>

\* handleServerOutput: serverReady <- struct{}{} on the channel of capacity
\* 1, which waits while the channel is full; then the handler returns
MonoReadySend ==
  /\ mlPc # "exited"
  /\ mlOutPc = "send"
  /\ mlReady < 1
  /\ mlReady' = mlReady + 1
  /\ mlOutPc' = "idle"
  /\ UNCHANGED <<mlStateReady, mlApi, mlOutLines, mlApiReady>>
  /\ UNCHANGED <<mlPc, mlSigPc, mlChild, mlCtxDone, mlShutdown, mlCtxAtExit>>
  /\ UNCHANGED <<startVars, reserveVars, exceptMono>>

\* handleServerOutput, "[S_API FAIL]": handleError, and a goroutine is
\* started that sleeps 5 seconds and calls s.Ready()
MonoChildApiFail ==
  /\ mlPc # "exited"
  /\ mlChild = "running"
  /\ mlOutPc = "idle"
  /\ mlOutLines < MaxLines
  /\ mlOutLines' = mlOutLines + 1
  /\ mlApi' = mlApi + 1
  /\ UNCHANGED <<mlOutPc, mlStateReady, mlApiReady>>
  /\ UNCHANGED <<mlPc, mlSigPc, mlChild, mlCtxDone, mlReady, mlShutdown, mlCtxAtExit>>
  /\ UNCHANGED <<startVars, reserveVars, exceptMono>>

\* the goroutine of an "[S_API FAIL]" line: s.Ready()
MonoApiReady ==
  /\ mlPc # "exited"
  /\ mlApi > 0
  /\ mlApi' = mlApi - 1
  /\ mlApiReady' = mlApiReady + 1
  /\ UNCHANGED <<mlOutPc, mlStateReady, mlOutLines>>
  /\ UNCHANGED <<mlPc, mlSigPc, mlChild, mlCtxDone, mlReady, mlShutdown, mlCtxAtExit>>
  /\ UNCHANGED <<startVars, reserveVars, exceptMono>>

\* the child process exits by itself, with status zero or not
MonoChildExits ==
  /\ mlPc # "exited"
  /\ mlChild = "running"
  /\ \E status \in {"zero", "nonzero"} : mlChild' = status
  /\ mlCtxAtExit' = mlCtxDone
  /\ UNCHANGED <<mlPc, mlSigPc, mlCtxDone, mlReady, mlShutdown>>
  /\ UNCHANGED <<startVars, reserveVars, monoOutVars, exceptMono>>

\* exec.CommandContext: the child is killed once the root context is cancelled
MonoChildKilled ==
  /\ mlPc # "exited"
  /\ mlChild = "running"
  /\ mlCtxDone
  /\ mlChild' = "killed"
  /\ mlCtxAtExit' = TRUE
  /\ UNCHANGED <<mlPc, mlSigPc, mlCtxDone, mlReady, mlShutdown>>
  /\ UNCHANGED <<startVars, reserveVars, monoOutVars, exceptMono>>

\* waitForServerReady: case <-serverReady, s.Ready() returns nil;
\* manageServerLifecycle starts handleReservation and calls cmd.Wait()
MonoReadyOk ==
  /\ mlPc = "waitForServerReady"
  /\ mlReady = 1
  /\ mlReady' = 0
  /\ mlPc' = "cmd.Wait"
  /\ mlSdkReady' = mlSdkReady + 1
  /\ mlResPc' = "select"
  /\ mlReserve' = TRUE
  /\ mlWon' = "ready"
  /\ UNCHANGED <<mlSigPc, mlChild, mlCtxDone, mlShutdown, mlCtxAtExit>>
  /\ UNCHANGED <<mlResLog, monoOutVars, exceptMono>>

\* waitForServerReady: case <-serverReady, s.Ready() returns an error;
\* manageServerLifecycle calls gracefulShutdown
MonoReadyErr ==
  /\ mlPc = "waitForServerReady"
  /\ mlReady = 1
  /\ mlReady' = 0
  /\ mlPc' = "ready.Shutdown"
  /\ mlSdkReady' = mlSdkReady + 1
  /\ mlWon' = "ready"
  /\ UNCHANGED <<mlSigPc, mlChild, mlCtxDone, mlShutdown, mlCtxAtExit, mlReserve>>
  /\ UNCHANGED <<mlResPc, mlResLog, monoOutVars, exceptMono>>

\* a timeout after which the startup sequence goes on as if the child
\* were ready
MonoReadyTimeoutGoesOn ==
  /\ mlPc = "waitForServerReady"
  /\ mlPc' = "cmd.Wait"
  /\ mlResPc' = "select"
  /\ mlReserve' = TRUE
  /\ mlWon' = "timeout"
  /\ UNCHANGED <<mlSigPc, mlChild, mlCtxDone, mlReady, mlShutdown, mlCtxAtExit,
                 mlSdkReady>>
  /\ UNCHANGED <<mlResLog, monoOutVars, exceptMono>>

\* waitForServerReady: case <-time.After(2 * time.Minute)
MonoReadyTimeout ==
  /\ mlPc = "waitForServerReady"
  /\ mlPc' = "ready.Shutdown"
  /\ mlWon' = "timeout"
  /\ UNCHANGED <<mlSigPc, mlChild, mlCtxDone, mlReady, mlShutdown, mlCtxAtExit,
                 mlSdkReady, mlReserve>>
  /\ UNCHANGED <<mlResPc, mlResLog, monoOutVars, exceptMono>>

\* waitForServerReady: case <-ctx.Done()
MonoReadyCtxDone ==
  /\ mlPc = "waitForServerReady"
  /\ mlCtxDone
  /\ mlPc' = "ready.Shutdown"
  /\ mlWon' = "ctx"
  /\ UNCHANGED <<mlSigPc, mlChild, mlCtxDone, mlReady, mlShutdown, mlCtxAtExit,
                 mlSdkReady, mlReserve>>
  /\ UNCHANGED <<mlResPc, mlResLog, monoOutVars, exceptMono>>

\* cmd.Wait() returns a non-nil error: the child was killed or exited with
\* a status other than zero
WaitErr(child) == child # "zero"

\* manageServerLifecycle: cmd.Wait() returns; handleServerExit is called
\* only with a non-nil error
MonoWaitReturns ==
  /\ mlPc = "cmd.Wait"
  /\ mlChild # "running"
  /\ mlPc' = IF WaitErr(mlChild) THEN "handleServerExit" ELSE "returned"
  /\ UNCHANGED <<mlSigPc, mlChild, mlCtxDone, mlReady, mlShutdown, mlCtxAtExit>>
  /\ UNCHANGED <<startVars, reserveVars, monoOutVars, exceptMono>>

\* handleServerExit: nothing to do when ctx.Err() == context.Canceled, else
\* gracefulShutdown
MonoExitCheck ==
  /\ mlPc = "handleServerExit"
  /\ mlPc' = IF mlCtxDone THEN "returned" ELSE "exit.Shutdown"
  /\ UNCHANGED <<mlSigPc, mlChild, mlCtxDone, mlReady, mlShutdown, mlCtxAtExit>>
  /\ UNCHANGED <<startVars, reserveVars, monoOutVars, exceptMono>>

\* gracefulShutdown called by main: s.Shutdown()
MonoGraceShutdown ==
  /\ mlPc \in {"ready.Shutdown", "exit.Shutdown"}
  /\ IF mlPc = "ready.Shutdown"
     THEN /\ mlShutdown' = [mlShutdown EXCEPT !["ready"] = @ + 1]
          /\ mlPc' = "ready.cancel"
     ELSE /\ mlShutdown' = [mlShutdown EXCEPT !["exit"] = @ + 1]
          /\ mlPc' = "exit.cancel"
  /\ UNCHANGED <<mlSigPc, mlChild, mlCtxDone, mlReady, mlCtxAtExit>>
  /\ UNCHANGED <<startVars, reserveVars, monoOutVars, exceptMono>>

\* gracefulShutdown called by main: time.Sleep(time.Second); cancel()
MonoGraceCancel ==
  /\ mlPc \in {"ready.cancel", "exit.cancel"}
  /\ mlCtxDone' = TRUE
  /\ mlPc' = "returned"
  /\ UNCHANGED <<mlSigPc, mlChild, mlReady, mlShutdown, mlCtxAtExit>>
  /\ UNCHANGED <<startVars, reserveVars, monoOutVars, exceptMono>>

\* main returns after manageServerLifecycle: the deferred cancel runs and
\* the process ends
MonoMainReturns ==
  /\ mlPc = "returned"
  /\ mlCtxDone' = TRUE
  /\ mlPc' = "exited"
  /\ UNCHANGED <<mlSigPc, mlChild, mlReady, mlShutdown, mlCtxAtExit>>
  /\ UNCHANGED <<startVars, reserveVars, monoOutVars, exceptMono>>

\* handleSignalsWithTimeout: a termination signal arrives
MonoSignal ==
  /\ mlPc # "exited"
  /\ mlSigPc = "wait"
  /\ mlSigPc' = "Shutdown"
  /\ UNCHANGED <<mlPc, mlChild, mlCtxDone, mlReady, mlShutdown, mlCtxAtExit>>
  /\ UNCHANGED <<startVars, reserveVars, monoOutVars, exceptMono>>

\* handleSignalsWithTimeout, gracefulShutdown: s.Shutdown()
MonoSignalShutdown ==
  /\ mlPc # "exited"
  /\ mlSigPc = "Shutdown"
  /\ mlShutdown' = [mlShutdown EXCEPT !["signal"] = @ + 1]
  /\ mlSigPc' = "cancel"
  /\ UNCHANGED <<mlPc, mlChild, mlCtxDone, mlReady, mlCtxAtExit>>
  /\ UNCHANGED <<startVars, reserveVars, monoOutVars, exceptMono>>

\* handleSignalsWithTimeout, gracefulShutdown: time.Sleep(time.Second); cancel()
MonoSignalCancel ==
  /\ mlPc # "exited"
  /\ mlSigPc = "cancel"
  /\ mlCtxDone' = TRUE
  /\ mlSigPc' = "done"
  /\ UNCHANGED <<mlPc, mlChild, mlReady, mlShutdown, mlCtxAtExit>>
  /\ UNCHANGED <<startVars, reserveVars, monoOutVars, exceptMono>>

\* handleReservation, s.Reserve(duration) returned an error, were the error
\* handed to gracefulShutdown
ReserveFailedFatal ==
  /\ mlResLog' = Append(mlResLog, "err")
  /\ mlShutdown' = [mlShutdown EXCEPT !["exit"] = @ + 1]
  /\ mlCtxDone' = TRUE
  /\ mlResPc' = "returned"

\* handleReservation, s.Reserve(duration) returned an error: it is logged
ReserveFailed ==
  /\ mlResLog' = Append(mlResLog, "err")
  /\ UNCHANGED <<mlShutdown, mlCtxDone, mlResPc>>

\* handleReservation, s.Reserve(duration) returned nil: the server state
\* gauge is set to 3
ReserveDone ==
  /\ mlResLog' = Append(mlResLog, "ok")
  /\ UNCHANGED <<mlShutdown, mlCtxDone, mlResPc>>

\* handleReservation: case <-ticker.C
MonoReserveTick ==
  /\ mlPc # "exited"
  /\ mlResPc = "select"
  /\ Len(mlResLog) < MaxTicks
  /\ \E err \in BOOLEAN : IF err THEN ReserveFailed ELSE ReserveDone
  /\ UNCHANGED <<mlPc, mlSigPc, mlChild, mlReady, mlCtxAtExit, startVars>>
  /\ UNCHANGED <<monoOutVars, exceptMono>>

\* handleReservation: case <-ctx.Done()
MonoReserveExit ==
  /\ mlPc # "exited"
  /\ mlResPc = "select"
  /\ mlCtxDone
  /\ mlResPc' = "returned"
  /\ UNCHANGED <<mlPc, mlSigPc, mlChild, mlCtxDone, mlReady, mlShutdown, mlCtxAtExit,
                 startVars, mlResLog>>
  /\ UNCHANGED <<monoOutVars, exceptMono>>

InitMono == InitServer /\ InitUnits

NextMono ==
  \/ MonoChildReady
  \/ MonoChildExits
  \/ MonoChildKilled
  \/ MonoReadyOk
  \/ MonoReadyErr
  \/ MonoReadyTimeout
  \/ MonoReadyCtxDone
  \/ MonoWaitReturns
  \/ MonoExitCheck
  \/ MonoGraceShutdown
  \/ MonoGraceCancel
  \/ MonoMainReturns
  \/ MonoSignal
  \/ MonoSignalShutdown
  \/ MonoSignalCancel
  \/ MonoReserveTick
  \/ MonoReserveExit
  \/ MonoReadySend
  \/ MonoChildApiFail
  \/ MonoApiReady

SpecMono == InitMono /\ [][NextMono]_vars

\* ------------------------------------------ the ServerState lock's users
\* What a routine does to the ServerState lock, to the mutable fields of
\* ServerState and to the SDK, in program order.
Routine(name) ==
  CASE name = "handlePlayerConnect" ->
         \* addPlayer, then the gauge and updatePlayerCount read state.Players
         << <<"Lock", "">>, <<"write", "ConnectedPlayers">>, <<"write", "Players">>,
            <<"Unlock", "">>,
            <<"read", "Players">>, <<"read", "Players">>, <<"sdk", "SetAnnotation">> >>
    [] name = "handlePlayerDisconnect" ->
         \* removePlayer, then the gauge and updatePlayerCount read state.Players
         << <<"Lock", "">>, <<"write", "ConnectedPlayers">>, <<"read", "Players">>,
            <<"write", "Players">>, <<"Unlock", "">>,
            <<"read", "Players">>, <<"read", "Players">>, <<"sdk", "SetAnnotation">> >>
    [] name = "MonitorMetrics" ->
         \* one tick whose s.GameServer() call succeeds
         << <<"RLock", "">>, <<"sdk", "GameServer">>,
            <<"read", "Players">>, <<"read", "Ready">>, <<"read", "LastPing">>,
            <<"read", "Players">>, <<"read", "Ready">>,
            <<"sdk", "SetAnnotation">>, <<"sdk", "SetAnnotation">>,
            <<"sdk", "SetAnnotation">>,
            <<"read", "Players">>, <<"read", "CurrentSession">>,
            <<"RUnlock", "">> >>
    [] name = "DoHealth" ->
         \* one tick whose s.Health() call succeeds
         << <<"Lock", "">>, <<"write", "LastPing">>, <<"Unlock", "">>,
            <<"sdk", "Health">>,
            <<"RLock", "">>, <<"read", "LastPing">>, <<"RUnlock", "">> >>

\* the routines each task runs
RoutinesOf(task) ==
  CASE task = "output"  -> {"handlePlayerConnect", "handlePlayerDisconnect"}
    [] task = "metrics" -> {"MonitorMetrics"}
    [] task = "health"  -> {"DoHealth"}

\* the instruction a task is at
Instr(task) == Routine(lkRoutine[task])[lkPc[task]]

\* the task is inside a routine, at an instruction of kind op
At(task, ops) == lkPc[task] > 0 /\ Instr(task)[1] \in ops

\* the lock mode a task holds
Held(task) ==
  IF lkWriter = task THEN "write"
  ELSE IF task \in lkReaders THEN "read"
  ELSE "none"

\* the position after the instruction a task is at: 0 after the last one
Advance(task) ==
  [lkPc EXCEPT ![task] = IF @ = Len(Routine(lkRoutine[task])) THEN 0 ELSE @ + 1]

\* a line or a tick arrives: the task enters a routine
LkStart ==
  /\ lkRuns < MaxRuns
  /\ \E t \in LockTasks :
       /\ lkPc[t] = 0
       /\ \E r \in RoutinesOf(t) : lkRoutine' = [lkRoutine EXCEPT ![t] = r]
       /\ lkPc' = [lkPc EXCEPT ![t] = 1]
  /\ lkRuns' = lkRuns + 1
  /\ UNCHANGED <<lkWriter, lkReaders, lkAccess, lkSdk>>
  /\ UNCHANGED exceptLock

\* state.Lock(): granted when nobody holds the lock
LkLock ==
  /\ \E t \in LockTasks :
       /\ At(t, {"Lock"})
       /\ lkWriter = "none"
       /\ lkReaders = {}
       /\ lkWriter' = t
       /\ lkPc' = Advance(t)
  /\ UNCHANGED <<lkReaders, lkRoutine, lkRuns, lkAccess, lkSdk>>
  /\ UNCHANGED exceptLock

\* state.RLock(): granted when nobody holds the lock for writing
LkRLock ==
  /\ \E t \in LockTasks :
       /\ At(t, {"RLock"})
       /\ lkWriter = "none"
       /\ lkReaders' = lkReaders \cup {t}
       /\ lkPc' = Advance(t)
  /\ UNCHANGED <<lkWriter, lkRoutine, lkRuns, lkAccess, lkSdk>>
  /\ UNCHANGED exceptLock

\* state.Unlock(), state.RUnlock()
LkUnlock ==
  /\ \E t \in LockTasks :
       /\ At(t, {"Unlock", "RUnlock"})
       /\ IF Instr(t)[1] = "Unlock"
          THEN lkWriter' = "none" /\ UNCHANGED lkReaders
          ELSE lkReaders' = lkReaders \ {t} /\ UNCHANGED lkWriter
       /\ lkPc' = Advance(t)
  /\ UNCHANGED <<lkRoutine, lkRuns, lkAccess, lkSdk>>
  /\ UNCHANGED exceptLock

\* a read or a write of a mutable ServerState field
LkAccess ==
  /\ \E t \in LockTasks :
       /\ At(t, {"read", "write"})
       /\ lkAccess' = [task |-> t, field |-> Instr(t)[2], kind |-> Instr(t)[1],
                       held |-> Held(t)]
       /\ lkPc' = Advance(t)
  /\ UNCHANGED <<lkWriter, lkReaders, lkRoutine, lkRuns, lkSdk>>
  /\ UNCHANGED exceptLock

\* a call of the orchestrator SDK
LkSdk ==
  /\ \E t \in LockTasks :
       /\ At(t, {"sdk"})
       /\ lkSdk' = [task |-> t, call |-> Instr(t)[2], held |-> Held(t)]
       /\ lkPc' = Advance(t)
  /\ UNCHANGED <<lkWriter, lkReaders, lkRoutine, lkRuns, lkAccess>>
  /\ UNCHANGED exceptLock

InitLock == InitServer /\ InitUnits

NextLock ==
  \/ LkStart
  \/ LkLock
  \/ LkRLock
  \/ LkUnlock
  \/ LkAccess
  \/ LkSdk

SpecLock == InitLock /\ [][NextLock]_vars

\* ------------------------------------------ MonitorSystemResources
\* capacity of the metricsPool channel
PoolCap == 2

\* a send on metricsPool that is always ready
PoolSendAlwaysReady == TRUE

\* the send on metricsPool is ready: the channel has room
PoolSendReady == metricsPool < PoolCap

\* the root context is cancelled
MsrCancel ==
  /\ ~msrCtxDone
  /\ msrCtxDone' = TRUE
  /\ UNCHANGED <<msrPc, metricsPool, msrTicks, wkStarted, wkRunning, wkReleasing, msrSkips>>
  /\ UNCHANGED exceptPool

\* outer select, case <-ticker.C
MsrTick ==
  /\ msrPc = "select"
  /\ msrTicks < MaxTicks
  /\ msrTicks' = msrTicks + 1
  /\ msrPc' = "tick"
  /\ UNCHANGED <<metricsPool, msrCtxDone, wkStarted, wkRunning, wkReleasing, msrSkips>>
  /\ UNCHANGED exceptPool

\* inner select, case metricsPool <- struct{}{}: a sampling goroutine is
\* created
MsrDispatch ==
  /\ msrPc = "tick"
  /\ PoolSendReady
  /\ metricsPool' = metricsPool + 1
  /\ wkStarted' = wkStarted + 1
  /\ msrPc' = "select"
  /\ UNCHANGED <<msrTicks, msrCtxDone, wkRunning, wkReleasing, msrSkips>>
  /\ UNCHANGED exceptPool

\* inner select, default: taken only when the send is not ready
MsrSkip ==
  /\ msrPc = "tick"
  /\ ~PoolSendReady
  /\ msrPc' = "select"
  /\ msrSkips' = msrSkips + 1
  /\ UNCHANGED <<metricsPool, msrTicks, msrCtxDone, wkStarted, wkRunning, wkReleasing>>
  /\ UNCHANGED exceptPool

\* outer select, case <-ctx.Done(): return
MsrExit ==
  /\ msrPc = "select"
  /\ msrCtxDone
  /\ msrPc' = "done"
  /\ UNCHANGED <<metricsPool, msrTicks, msrCtxDone, wkStarted, wkRunning, wkReleasing, msrSkips>>
  /\ UNCHANGED exceptPool

\* a sampling goroutine is scheduled and enters updateSystemMetrics
WorkerBegin ==
  /\ wkStarted > 0
  /\ wkStarted' = wkStarted - 1
  /\ wkRunning' = wkRunning + 1
  /\ UNCHANGED <<msrPc, metricsPool, msrTicks, msrCtxDone, wkReleasing, msrSkips>>
  /\ UNCHANGED exceptPool

\* updateSystemMetrics returns
WorkerReturn ==
  /\ wkRunning > 0
  /\ wkRunning' = wkRunning - 1
  /\ wkReleasing' = wkReleasing + 1
  /\ UNCHANGED <<msrPc, metricsPool, msrTicks, msrCtxDone, wkStarted, msrSkips>>
  /\ UNCHANGED exceptPool

\* the deferred <-metricsPool
WorkerRelease ==
  /\ wkReleasing > 0
  /\ wkReleasing' = wkReleasing - 1
  /\ metricsPool' = metricsPool - 1
  /\ UNCHANGED <<msrPc, msrTicks, msrCtxDone, wkStarted, wkRunning, msrSkips>>
  /\ UNCHANGED exceptPool

\* sampling goroutines that hold a token of metricsPool
InFlight == wkStarted + wkRunning + wkReleasing

InitPool == InitServer /\ InitUnits

NextPool ==
  \/ MsrCancel
  \/ MsrTick
  \/ MsrDispatch
  \/ MsrSkip
  \/ MsrExit
  \/ WorkerBegin
  \/ WorkerReturn
  \/ WorkerRelease

SpecPool == InitPool /\ [][NextPool]_vars

\* ------------------------------------------ the periodic tasks
\* the periodic tasks whose body takes the ServerState lock, and the output
\* goroutine
LockingTasks ==
  {"DoHealth", "MonitorMetrics", "collectLowFrequencyMetrics", "output"}

\* The lock operations and branches of one pass through a loop's body, in
\* program order; the SDK calls, which return, are part of the step that
\* follows them.
LoopBody(name) ==
  CASE name = "DoHealth" ->
         \* LastPing, s.Health(), the gauge, the status line every 30 s
         <<"Lock", "Unlock", "Health", "RLock", "RUnlockLog">>
    [] name = "DoHealthLog" ->
         <<"RLock", "RUnlock">>
    [] name = "DoHealthFail" ->
         \* s.GameServer(), the system state line, gracefulShutdown
         <<"RLock", "RUnlock", "Lock", "Unlock", "cancel">>
    [] name = "MonitorMetrics" ->
         \* s.GameServer() and s.SetAnnotation are called with the lock held
         <<"RLock", "RUnlock">>
    [] name = "collectLowFrequencyMetrics" -> <<"RLock", "RUnlock">>
    [] name = "output" ->
         \* addPlayer, removePlayer and the other handlers' critical sections
         <<"Lock", "Unlock">>

\* case <-ctx.Done() that is never ready
LpDoneNever == FALSE

\* case <-ctx.Done() is ready
LpDoneReady == lpCtxDone

\* the task is inside a body, at an operation of ops
LpAt(t, ops) == lpPc[t] > 0 /\ LoopBody(lpRoutine[t])[lpPc[t]] \in ops

\* the task moves past the operation it is at: back to the select after the
\* last one
LpAdvance(t) ==
  IF lpPc[t] = Len(LoopBody(lpRoutine[t]))
  THEN /\ lpRoutine' = [lpRoutine EXCEPT ![t] = "select"]
       /\ lpPc' = [lpPc EXCEPT ![t] = 0]
  ELSE /\ lpPc' = [lpPc EXCEPT ![t] = @ + 1]
       /\ UNCHANGED lpRoutine

\* the task enters another body
LpEnter(t, name) ==
  /\ lpRoutine' = [lpRoutine EXCEPT ![t] = name]
  /\ lpPc' = [lpPc EXCEPT ![t] = 1]

\* the root context is cancelled by the signal handler or by main
LpCancel ==
  /\ ~lpCtxDone
  /\ lpCtxDone' = TRUE
  /\ UNCHANGED <<lpRoutine, lpPc, lpWriter, lpReaders, lpPerf>>
  /\ UNCHANGED exceptLoops

\* select, case <-ticker.C; for the output goroutine, a line arrives
LpTick(t) ==
  /\ t \in LockingTasks
  /\ lpRoutine[t] = "select"
  /\ LpEnter(t, t)
  /\ UNCHANGED <<lpCtxDone, lpWriter, lpReaders, lpPerf>>
  /\ UNCHANGED exceptLoops

\* handleReservation: case <-ticker.C, s.Reserve() returns;
\* MonitorSystemResources: case <-ticker.C, the select on metricsPool takes
\* the send or the default. Neither waits, and the task is back at its select.
LpTickCall(t) ==
  /\ t \in {"handleReservation", "MonitorSystemResources"}
  /\ lpRoutine[t] = "select"
  /\ UNCHANGED <<lpCtxDone, lpRoutine, lpPc, lpWriter, lpReaders, lpPerf>>
  /\ UNCHANGED exceptLoops

\* collectHighFrequencyMetrics: case <-ticker.C, then
\* select { case pm.perfUpdates <- metrics: default: }
LpSend(t) ==
  /\ t = "collectHighFrequencyMetrics"
  /\ lpRoutine[t] = "select"
  /\ lpPerf' = IF lpPerf < MaxPerf THEN lpPerf + 1 ELSE lpPerf
  /\ UNCHANGED <<lpCtxDone, lpRoutine, lpPc, lpWriter, lpReaders>>
  /\ UNCHANGED exceptLoops

\* processMetrics: select, case perfData := <-pm.perfUpdates
LpRecv(t) ==
  /\ t = "processMetrics"
  /\ lpRoutine[t] = "select"
  /\ lpPerf > 0
  /\ lpPerf' = lpPerf - 1
  /\ UNCHANGED <<lpCtxDone, lpRoutine, lpPc, lpWriter, lpReaders>>
  /\ UNCHANGED exceptLoops

\* select, case <-ctx.Done(): return
LpExit(t) ==
  /\ t \in LoopTasks
  /\ lpRoutine[t] = "select"
  /\ LpDoneReady
  /\ lpRoutine' = [lpRoutine EXCEPT ![t] = "returned"]
  /\ UNCHANGED <<lpCtxDone, lpPc, lpWriter, lpReaders, lpPerf>>
  /\ UNCHANGED exceptLoops

\* state.Lock()
LpLock(t) ==
  /\ LpAt(t, {"Lock"})
  /\ lpWriter = "none"
  /\ lpReaders = {}
  /\ lpWriter' = t
  /\ LpAdvance(t)
  /\ UNCHANGED <<lpCtxDone, lpReaders, lpPerf>>
  /\ UNCHANGED exceptLoops

\* state.RLock()
LpRLock(t) ==
  /\ LpAt(t, {"RLock"})
  /\ lpWriter = "none"
  /\ lpReaders' = lpReaders \cup {t}
  /\ LpAdvance(t)
  /\ UNCHANGED <<lpCtxDone, lpWriter, lpPerf>>
  /\ UNCHANGED exceptLoops

\* state.Unlock(), state.RUnlock(); in DoHealth the status line may follow
LpUnlock(t) ==
  /\ LpAt(t, {"Unlock", "RUnlock", "RUnlockLog"})
  /\ IF LoopBody(lpRoutine[t])[lpPc[t]] = "Unlock"
     THEN lpWriter' = "none" /\ UNCHANGED lpReaders
     ELSE lpReaders' = lpReaders \ {t} /\ UNCHANGED lpWriter
  /\ \/ LpAdvance(t)
     \/ LpAt(t, {"RUnlockLog"}) /\ LpEnter(t, "DoHealthLog")
  /\ UNCHANGED <<lpCtxDone, lpPerf>>
  /\ UNCHANGED exceptLoops

\* s.Health() returns: nil, or an error and DoHealth shuts down
LpHealth(t) ==
  /\ LpAt(t, {"Health"})
  /\ \/ LpAdvance(t)
     \/ LpEnter(t, "DoHealthFail")
  /\ UNCHANGED <<lpCtxDone, lpWriter, lpReaders, lpPerf>>
  /\ UNCHANGED exceptLoops

\* gracefulShutdown: s.Shutdown() returns, cancel(), and DoHealth returns
LpShutdown(t) ==
  /\ LpAt(t, {"cancel"})
  /\ lpCtxDone' = TRUE
  /\ lpRoutine' = [lpRoutine EXCEPT ![t] = "returned"]
  /\ lpPc' = [lpPc EXCEPT ![t] = 0]
  /\ UNCHANGED <<lpWriter, lpReaders, lpPerf>>
  /\ UNCHANGED exceptLoops

InitLoops == InitServer /\ InitUnits

NextLoops ==
  \/ LpCancel
  \/ \E t \in LpTasks : LpTick(t)
  \/ \E t \in LpTasks : LpTickCall(t)
  \/ \E t \in LpTasks : LpSend(t)
  \/ \E t \in LpTasks : LpRecv(t)
  \/ \E t \in LpTasks : LpExit(t)
  \/ \E t \in LpTasks : LpLock(t)
  \/ \E t \in LpTasks : LpRLock(t)
  \/ \E t \in LpTasks : LpUnlock(t)
  \/ \E t \in LpTasks : LpHealth(t)
  \/ \E t \in LpTasks : LpShutdown(t)

\* Scheduling. A goroutine that can take a step which waits for nothing
\* takes it. The ServerState lock is granted to the goroutines that keep
\* asking for it: sync.RWMutex does not starve a waiter. A select whose
\* <-ctx.Done() case is ready every time it is reached takes that case in
\* the end: the choice among ready cases is random, and a ticker is ready
\* once per interval. The last two are stated for the periodic tasks
\* together, which is weaker than stating them for each task.
LoopsFairness ==
  /\ \A t \in LockingTasks : WF_vars(LpUnlock(t) \/ LpHealth(t) \/ LpShutdown(t))
  /\ SF_vars(\E t \in LoopTasks : LpLock(t) \/ LpRLock(t))
  /\ SF_vars(\E t \in LoopTasks : LpExit(t))

SpecLoops == InitLoops /\ [][NextLoops]_vars /\ LoopsFairness

\* ------------------------------------------------------------ claims
\* ------------------------------------------------ utils.RateLimiter
\* NewRateLimiter builds one rate.Limiter (golang.org/x/time/rate, a token
\* bucket that starts full) per operation.  Time is counted in ticks of
\* 100 ms and tokens in ticks of refill: a call costs EveryTicks(op).
RateOps == {"health", "metrics", "command", "other"}

LimitedOps == {"health", "metrics", "command"}

\* rate.Every(time.Second), rate.Every(5*time.Second),
\* rate.Every(100*time.Millisecond)
EveryTicks(op) ==
  CASE op = "health"  -> 10
    [] op = "metrics" -> 50
    [] op = "command" -> 1
    [] OTHER          -> 1

\* the burst given to rate.NewLimiter
Burst(op) ==
  CASE op = "health"  -> 2
    [] op = "metrics" -> 1
    [] op = "command" -> 10
    [] OTHER          -> 0

\* how long the caller pauses between two calls
SleepTicks == {1, 10, 50}

\* a bucket that keeps whatever an idle period brings
RefillNoCap(op, tokens) == tokens

\* the bucket never holds more than its burst
Refill(op, tokens) ==
  IF tokens > Burst(op) * EveryTicks(op) THEN Burst(op) * EveryTicks(op) ELSE tokens

NewRateLimiter(op) ==
  /\ rlOp = op
  /\ rlTokens = Burst(op) * EveryTicks(op)
  /\ rlNow = 0
  /\ rlRet = "none"
  /\ rlGrants = <<>>
  /\ rlSleeps = 0

\* time passes between two calls
RlSleep ==
  /\ rlSleeps < MaxSleeps
  /\ \E d \in SleepTicks :
       /\ rlNow' = rlNow + d
       /\ rlTokens' = Refill(rlOp, rlTokens + d)
  /\ rlSleeps' = rlSleeps + 1
  /\ UNCHANGED <<rlOp, rlRet, rlGrants>>
  /\ UNCHANGED exceptRate

\* RateLimiter.Allow(op): the limiter of the operation takes one token when
\* it has one; an operation without a limiter is always allowed
RlAllow ==
  /\ Len(rlGrants) < MaxGrants
  /\ IF rlOp \notin LimitedOps
     THEN /\ rlRet' = "true"
          /\ rlGrants' = Append(rlGrants, rlNow)
          /\ UNCHANGED rlTokens
     ELSE IF rlTokens >= EveryTicks(rlOp)
          THEN /\ rlRet' = "true"
               /\ rlTokens' = rlTokens - EveryTicks(rlOp)
               /\ rlGrants' = Append(rlGrants, rlNow)
          ELSE /\ rlRet' = "false"
               /\ UNCHANGED <<rlTokens, rlGrants>>
  /\ UNCHANGED <<rlOp, rlNow, rlSleeps>>
  /\ UNCHANGED exceptRate

InitRate ==
  /\ InitServer
  /\ InitBreakerIdle
  /\ InitParseIdle
  /\ InitMonoIdle
  /\ InitLockIdle
  /\ InitPoolIdle
  /\ InitLoopsIdle
  /\ InitSessionIdle
  /\ InitSmIdle
  /\ InitRwIdle
  /\ \E op \in RateOps : NewRateLimiter(op)

NextRate ==
  \/ RlSleep
  \/ RlAllow

SpecRate == InitRate /\ [][NextRate]_vars

\* -------------------------------------------- CcTimeSession.ExecuteAsync
\* SessionTimeMinutes as the validator accepts it (greater than 0): the
\* short sessions, and two values whose product with 60 leaves the range
\* of a 32-bit int
WideMinutes == {35791395, 71582789}

SessionTimes == (1..MaxMinutes) \cup WideMinutes

\* SessionTimeMinutes * 60 leaves the range of int
Overflows(minutes) == minutes > 35791394

\* SessionTimeSeconds => SessionTimeMinutes * 60, in 32-bit two's
\* complement arithmetic; the product is built from the two 16-bit halves
\* of the factor
SessionTimeSeconds(minutes) ==
  LET t  == ((minutes \div 65536) * 60) % 65536
      hi == IF t >= 32768 THEN (t - 65536) * 65536 ELSE t * 65536
      lo == (minutes % 65536) * 60
  IN  IF hi > 2147483647 - lo
      THEN ((hi - 2147483647) - 1) + ((lo - 2147483647) - 1)
      ELSE hi + lo

\* the switch on remainingSeconds that chooses sleepInterval
SleepInterval(remaining) ==
  CASE remaining >= 30 * 60                      -> 10 * 60
    [] remaining <= 15 * 60 /\ remaining > 5 * 60 -> 5 * 60
    [] remaining <= 5 * 60 /\ remaining > 0       -> 60
    [] OTHER                                     -> remaining

\* the for loop's test, the cancellation check, the broadcast of the
\* message for remainingSeconds, and either EndSession or the choice of
\* sleepInterval
CtsIterate ==
  /\ ctsPc = "for"
  /\ IF remainingSeconds < 0 \/ stoppingToken
     THEN /\ ctsPc' = "returned"
          /\ UNCHANGED <<sleepInterval, ctsFin>>
     ELSE IF remainingSeconds = 0
          THEN /\ ctsFin' = ctsFin + 1
               /\ ctsPc' = "returned"
               /\ UNCHANGED sleepInterval
          ELSE /\ sleepInterval' = SleepInterval(remainingSeconds)
               /\ ctsPc' = "delay"
               /\ UNCHANGED ctsFin
  /\ UNCHANGED <<ctsMinutes, remainingSeconds, stoppingToken, ctsSlept>>
  /\ UNCHANGED exceptSession

\* await Task.Delay(sleepInterval * 1000, stoppingToken) completes;
\* remainingSeconds -= sleepInterval
CtsDelay ==
  /\ ctsPc = "delay"
  /\ ~stoppingToken
  /\ remainingSeconds' = remainingSeconds - sleepInterval
  /\ ctsSlept' = ctsSlept + sleepInterval
  /\ ctsPc' = "for"
  /\ UNCHANGED <<ctsMinutes, sleepInterval, stoppingToken, ctsFin>>
  /\ UNCHANGED exceptSession

\* Task.Delay ends with the cancellation of the token
CtsDelayCancelled ==
  /\ ctsPc = "delay"
  /\ stoppingToken
  /\ ctsPc' = "cancelled"
  /\ UNCHANGED <<ctsMinutes, remainingSeconds, sleepInterval, stoppingToken, ctsSlept,
                 ctsFin>>
  /\ UNCHANGED exceptSession

\* the host stops the service
CtsStop ==
  /\ ctsPc \in {"for", "delay"}
  /\ ~stoppingToken
  /\ stoppingToken' = TRUE
  /\ UNCHANGED <<ctsMinutes, ctsPc, remainingSeconds, sleepInterval, ctsSlept, ctsFin>>
  /\ UNCHANGED exceptSession

\* ExecuteAsync is entered with the configured time.  A product that leaves
\* the range of int wraps around, or throws where the build checks
\* arithmetic.
InitSession ==
  /\ InitServer
  /\ InitBreakerIdle
  /\ InitParseIdle
  /\ InitMonoIdle
  /\ InitLockIdle
  /\ InitPoolIdle
  /\ InitLoopsIdle
  /\ InitRateIdle
  /\ InitSmIdle
  /\ InitRwIdle
  /\ ctsMinutes \in SessionTimes
  /\ \/ /\ ctsPc = "for"
        /\ remainingSeconds = SessionTimeSeconds(ctsMinutes)
     \/ /\ Overflows(ctsMinutes)
        /\ ctsPc = "threw"
        /\ remainingSeconds = 0
  /\ sleepInterval = 0
  /\ stoppingToken = FALSE
  /\ ctsSlept = 0
  /\ ctsFin = 0

NextSession ==
  \/ CtsIterate
  \/ CtsDelay
  \/ CtsDelayCancelled
  \/ CtsStop

SpecSession == InitSession /\ [][NextSession]_vars

\* ------------------------------------------- session.SessionManager
SessionTypes == {"practice", "race"}

\* history[1:] of archiveCurrentSession: a slice expression whose low bound
\* is above the length of the slice panics
SliceFrom1Panics(history) == Len(history) < 1

\* archiveCurrentSession: the oldest entry is dropped when the history is
\* at maxHistory, the current session gets its EndTime and is appended
archiveCurrentSession(history, current, maxHistory) ==
  Append(IF Len(history) >= maxHistory THEN Tail(history) ELSE history,
         [current EXCEPT !.EndTime = TRUE])

\* A transition that names the session replaced.
TransitionFromPrevious(prev, sessionType) ==
  [From |-> IF prev = NilSession THEN "none" ELSE prev.Type, To |-> sessionType]

\* the SessionTransition that StartNewSession builds
Transition(prev, sessionType) == [From |-> "none", To |-> sessionType]

\* StartNewSession up to the send: sm.Lock(), the current session archived
\* if there is one, the new one made current.  A panic in
\* archiveCurrentSession runs the deferred Unlock and reaches the caller.
SmStartNewSession ==
  /\ smPc = "idle"
  /\ smReaderPc = "idle"
  /\ smStarts < MaxStarts
  /\ smStarts' = smStarts + 1
  /\ \E sessionType \in SessionTypes :
       IF /\ smCurrent # NilSession
          /\ Len(smHistory) >= smMaxHistory
          /\ SliceFrom1Panics(smHistory)
       THEN /\ smFaults' = smFaults + 1
            /\ UNCHANGED <<smCurrent, smHistory, smPc, smLast, smPrev>>
       ELSE /\ smHistory' = IF smCurrent # NilSession
                            THEN archiveCurrentSession(smHistory, smCurrent, smMaxHistory)
                            ELSE smHistory
            /\ smCurrent' = [Id |-> smStarts + 1, Type |-> sessionType, EndTime |-> FALSE]
            /\ smLast' = Transition(smCurrent, sessionType)
            /\ smPrev' = IF smCurrent = NilSession THEN "none" ELSE smCurrent.Type
            /\ smPc' = "send"
            /\ UNCHANGED smFaults
  /\ UNCHANGED <<smMaxHistory, smTransitions, smReaderPc>>
  /\ UNCHANGED exceptSm

\* sm.transitions <- SessionTransition{...}, then return nil and the
\* deferred Unlock: the send waits while the channel is full
SmSend ==
  /\ smPc = "send"
  /\ smTransitions < TransitionsCap
  /\ smTransitions' = smTransitions + 1
  /\ smPc' = "idle"
  /\ UNCHANGED <<smMaxHistory, smCurrent, smHistory, smReaderPc, smStarts, smFaults,
                 smLast, smPrev>>
  /\ UNCHANGED exceptSm

\* GetCurrentSession / GetSessionHistory: sm.RLock()
SmRLock ==
  /\ smReaderPc = "idle"
  /\ smPc = "idle"
  /\ smReaderPc' = "reading"
  /\ UNCHANGED <<smMaxHistory, smCurrent, smHistory, smTransitions, smPc, smStarts,
                 smFaults, smLast, smPrev>>
  /\ UNCHANGED exceptSm

\* GetCurrentSession / GetSessionHistory: the deferred RUnlock
SmRUnlock ==
  /\ smReaderPc = "reading"
  /\ smReaderPc' = "idle"
  /\ UNCHANGED <<smMaxHistory, smCurrent, smHistory, smTransitions, smPc, smStarts,
                 smFaults, smLast, smPrev>>
  /\ UNCHANGED exceptSm

\* NewSessionManager(maxHistory)
NewSessionManager(maxHistory) ==
  /\ smMaxHistory = maxHistory
  /\ smCurrent = NilSession
  /\ smHistory = <<>>
  /\ smTransitions = 0
  /\ smPc = "idle"
  /\ smReaderPc = "idle"
  /\ smStarts = 0
  /\ smFaults = 0
  /\ smLast = [From |-> "", To |-> ""]
  /\ smPrev = ""

InitSm ==
  /\ InitServer
  /\ InitBreakerIdle
  /\ InitParseIdle
  /\ InitMonoIdle
  /\ InitLockIdle
  /\ InitPoolIdle
  /\ InitLoopsIdle
  /\ InitRateIdle
  /\ InitSessionIdle
  /\ InitRwIdle
  /\ \E maxHistory \in 0..MaxHistory : NewSessionManager(maxHistory)

NextSm ==
  \/ SmStartNewSession
  \/ SmSend
  \/ SmRLock
  \/ SmRUnlock

\* the send and the release of a read lock are steps of running goroutines
SpecSm == InitSm /\ [][NextSm]_vars /\ WF_vars(SmSend) /\ WF_vars(SmRUnlock)

\* ------------------- agones/main.go: monitorMetrics and doHealth
\* sync.RWMutex: RLock() waits while the write lock is held or a Lock()
\* call is waiting; Lock() first announces itself, then waits for the read
\* locks held to be released.
RLockReady == ~rwWriter /\ ~rwPending

\* where monitorMetrics calls state.RLock(): in its own tick, in
\* updateMetrics and in updateDetailedMetrics
MtRLockSites == {"RLock", "updateMetrics.RLock", "updateDetailedMetrics.RLock"}

MtAfterRLock(pc) ==
  CASE pc = "RLock"                       -> "GameServer"
    [] pc = "updateMetrics.RLock"         -> "updateMetrics.RUnlock"
    [] pc = "updateDetailedMetrics.RLock" -> "updateDetailedMetrics.RUnlock"

MtAfterRUnlock(pc) ==
  CASE pc = "updateMetrics.RUnlock"         -> "updateDetailedMetrics.RLock"
    [] pc = "updateDetailedMetrics.RUnlock" -> "RUnlock"
    [] pc = "RUnlock"                       -> "select"

\* monitorMetrics: case <-ticker.C
MtTick ==
  /\ mtPc = "select"
  /\ mtTicks < MaxTicks
  /\ mtTicks' = mtTicks + 1
  /\ mtPc' = "RLock"
  /\ UNCHANGED <<rwReaders, rwWriter, rwPending, dhPc, dhTicks>>
  /\ UNCHANGED exceptRw

\* monitorMetrics, updateMetrics, updateDetailedMetrics: state.RLock()
MtRLock ==
  /\ mtPc \in MtRLockSites
  /\ RLockReady
  /\ rwReaders' = rwReaders + 1
  /\ mtPc' = MtAfterRLock(mtPc)
  /\ UNCHANGED <<rwWriter, rwPending, dhPc, mtTicks, dhTicks>>
  /\ UNCHANGED exceptRw

\* monitorMetrics: s.GameServer() fails and the tick goes to its RUnlock,
\* or succeeds and updateServerAnnotations, updateMetrics and
\* updateDetailedMetrics are called
MtGameServer ==
  /\ mtPc = "GameServer"
  /\ \E err \in BOOLEAN : mtPc' = IF err THEN "RUnlock" ELSE "updateMetrics.RLock"
  /\ UNCHANGED <<rwReaders, rwWriter, rwPending, dhPc, mtTicks, dhTicks>>
  /\ UNCHANGED exceptRw

\* monitorMetrics, updateMetrics, updateDetailedMetrics: state.RUnlock()
MtRUnlock ==
  /\ mtPc \in {"updateMetrics.RUnlock", "updateDetailedMetrics.RUnlock", "RUnlock"}
  /\ rwReaders' = rwReaders - 1
  /\ mtPc' = MtAfterRUnlock(mtPc)
  /\ UNCHANGED <<rwWriter, rwPending, dhPc, mtTicks, dhTicks>>
  /\ UNCHANGED exceptRw

\* doHealth: case <-ticker.C; state.Lock() is called
DhTick ==
  /\ dhPc = "select"
  /\ dhTicks < MaxTicks
  /\ ~rwPending
  /\ dhTicks' = dhTicks + 1
  /\ rwPending' = TRUE
  /\ dhPc' = "Lock"
  /\ UNCHANGED <<rwReaders, rwWriter, mtPc, mtTicks>>
  /\ UNCHANGED exceptRw

\* doHealth: state.Lock() returns
DhLock ==
  /\ dhPc = "Lock"
  /\ rwReaders = 0
  /\ ~rwWriter
  /\ rwWriter' = TRUE
  /\ rwPending' = FALSE
  /\ dhPc' = "Unlock"
  /\ UNCHANGED <<rwReaders, mtPc, mtTicks, dhTicks>>
  /\ UNCHANGED exceptRw

\* doHealth: state.lastPing = time.Now(); state.Unlock(); s.Health()
DhUnlock ==
  /\ dhPc = "Unlock"
  /\ rwWriter' = FALSE
  /\ dhPc' = "RLock"
  /\ UNCHANGED <<rwReaders, rwPending, mtPc, mtTicks, dhTicks>>
  /\ UNCHANGED exceptRw

\* doHealth: state.RLock() for the last health ping gauge
DhRLock ==
  /\ dhPc = "RLock"
  /\ RLockReady
  /\ rwReaders' = rwReaders + 1
  /\ dhPc' = "RUnlock"
  /\ UNCHANGED <<rwWriter, rwPending, mtPc, mtTicks, dhTicks>>
  /\ UNCHANGED exceptRw

\* doHealth: state.RUnlock()
DhRUnlock ==
  /\ dhPc = "RUnlock"
  /\ rwReaders' = rwReaders - 1
  /\ dhPc' = "select"
  /\ UNCHANGED <<rwWriter, rwPending, mtPc, mtTicks, dhTicks>>
  /\ UNCHANGED exceptRw

InitRw == InitServer /\ InitUnits

NextRw ==
  \/ MtTick
  \/ MtRLock
  \/ MtGameServer
  \/ MtRUnlock
  \/ DhTick
  \/ DhLock
  \/ DhUnlock
  \/ DhRLock
  \/ DhRUnlock

\* a goroutine that can take a step takes one
SpecRw == InitRw /\ [][NextRw]_vars /\ WF_vars(NextRw)

\* C1: after each connect or disconnect event has been applied, Players
\* equals the number of keys of ConnectedPlayers.
C1_PlayersMatchesMap ==
  outPc = "idle" => Players = Cardinality(DOMAIN ConnectedPlayers)

\* C2: whatever the number and order of shutdown triggers (session end
\* marker, failed health ping, termination signal), the SDK receives at most
\* one Shutdown() call from them in total.
C2_ShutdownCalledOnce ==
  sdkShutdown["handlers"] + sdkShutdown["health"] + sdkShutdown["signal"] <= 1

\* C3: once HandleServerOutput has handled an "End of session" line to its
\* end (the grace period slept, cancel() called), the root context that the
\* periodic loops select on is cancelled.
C3_SessionEndCancelsRoot == sessionEndDone => ctxDone

\* C4: ShuttingDown is monotonic: no step takes it from true back to false.
C4_ShuttingDownMonotonic == [][ShuttingDown => ShuttingDown']_vars

\* C5: in a whole run handleServerReady changes Ready from false to true at
\* most once and offers at most one signal on the ready channel.
C5_ReadyFiresOnce == readyFires <= 1 /\ readyOffers <= 1

\* C6: an IsOpen() call made on an open breaker after more than timeout has
\* passed since the last failure completes: having reached cb.Lock(), it
\* can go on to clear failures and isOpen and return false.
C6_AutoResetCompletes == cbPc = "IsOpen.Lock" => ENABLED Locked

\* C7: counting from a new or Reset breaker, the k-th consecutive
\* RecordFailure() returns false while k < maxFailures and true from
\* k = maxFailures on; and IsOpen() called after the maxFailures-th failure,
\* before timeout has passed since the last one, returns true.
C7_BreakerOpens ==
  [][/\ (cbPc = "RecordFailure" /\ cbPc' = "idle")
          => (cbRet' <=> cbStreak' >= cbMax)
     /\ (/\ cbPc = "idle" /\ cbPc' = "idle"
         /\ cbCalls' = cbCalls + 1
         /\ cbStreak >= cbMax
         /\ cbSince < cbTimeout)
          => (cbDone' = "IsOpen" /\ cbRet' = TRUE)]_vars

\* C7 witness: a breaker built with the largest threshold took exactly that
\* many failures, and IsOpen() called before the timeout returned true.
C7_Witness ==
  /\ cbPc = "idle"
  /\ cbDone = "IsOpen"
  /\ cbRet = TRUE
  /\ cbMax = MaxThreshold
  /\ cbStreak = cbMax
  /\ cbSince < cbTimeout

\* C8: every answer of the /health handler is the one the claim describes
\* for the state the handler reads: "OK" if and only if Ready, the last ping
\* is younger than 5 seconds and ShuttingDown is false; else the message of
\* the first failing condition (not ready, health check timeout, shutting
\* down).
C8_HealthEndpoint ==
  [][(resp = "pending" /\ resp' # "pending")
       => /\ (resp' = "OK") <=> (Ready /\ pingAge < 5 /\ ~ShuttingDown)
          /\ ~Ready => resp' = "Server not ready"
          /\ (Ready /\ ~(pingAge < 5)) => resp' = "Health check timeout"
          /\ (Ready /\ pingAge < 5 /\ ShuttingDown) => resp' = "Server is shutting down"]_vars

\* C8 witness: the handler answered 503 "Server is shutting down" while
\* Ready was still true.
C8_Witness ==
  resp = "Server is shutting down" /\ Ready /\ ShuttingDown /\ mainPc = "serve"

\* C9: ExtractPlayerInfo on "<name> (<steamid>) has connected (<car>)", such
\* as "Alice (76561197960287930) has connected (ks_mx5)", returns exactly
\* Player{Name: <name>, SteamID: <steamid>, CarModel: <car>}.
C9_ExtractPlayerInfo ==
  \A n \in PlayerNames, id \in SteamIds, c \in ParseCars :
    (pDone /\ pLine = ConnectLine(n, id, c))
      => pResult = [Name |-> <<n>>, SteamID |-> <<id>>, CarModel |-> <<c>>]

\* C10: handling the connect line of a player and then the corresponding
\* disconnect line leaves ConnectedPlayers without that steam id, leaves
\* every other entry as it was, and restores Players to its value before
\* the connect.
C10_ConnectDisconnectRoundTrip ==
  [][\A n \in PlayerNames, c \in Cars :
       (/\ lastLine = ConnectLine(n, SteamIdOf(n), c)
        /\ lastLine' = DisconnectLine(n, SteamIdOf(n))
        /\ nLines' = nLines + 1)
         => LET id == <<SteamIdOf(n)>>
            IN  /\ id \notin DOMAIN ConnectedPlayers'
                /\ Players' = snapPlayers
                /\ (DOMAIN ConnectedPlayers') \ {id} = (DOMAIN snapCP) \ {id}
                /\ \A k \in (DOMAIN snapCP) \ {id} : ConnectedPlayers'[k] = snapCP[k]]_vars

\* C11: an "End of session" line handled while ShuttingDown is false sets
\* ShuttingDown, empties ConnectedPlayers, sets Players and the players
\* gauge to 0, and these stay so until the handler returns; on its way the
\* handler calls the SDK's Shutdown() exactly once.
C11_SessionEndEffects ==
  [][/\ (lastLine' = EndLine /\ nLines' = nLines + 1 /\ ~ShuttingDown)
          => /\ outPc' = "endLock"
             /\ ShuttingDown' /\ ConnectedPlayers' = EmptyMap
             /\ Players' = 0 /\ playersGauge' = 0
             /\ sdkShutdown' = sdkShutdown
     /\ (outPc \in {"endLock", "endSdk", "endSleep"})
          => /\ ShuttingDown' /\ ConnectedPlayers' = EmptyMap
             /\ Players' = 0 /\ playersGauge' = 0
     /\ outPc = "endLock" => (outPc' = "endSdk" /\ sdkShutdown' = sdkShutdown)
     /\ outPc = "endSdk"
          => /\ outPc' = "endSleep"
             /\ sdkShutdown' = [sdkShutdown EXCEPT !["handlers"] = @ + 1]
     /\ outPc = "endSleep" => (outPc' = "idle" /\ sdkShutdown' = sdkShutdown)]_vars

\* C11 witness: a session end handled to its end with a player connected
\* before it.
C11_Witness ==
  /\ lastLine = EndLine
  /\ snapPlayers > 0
  /\ sessionEndDone
  /\ outPc = "idle"
  /\ sdkShutdown["handlers"] = 1
  /\ Players = 0

\* C12: when manageServerLifecycle has returned after the child exited by
\* itself (with status zero or not) while the root context was not
\* cancelled, s.Shutdown() has been called and the root context is
\* cancelled; when the child exited after the root context was cancelled,
\* handleServerExit has made no Shutdown() call.
C12_ExitTakesShutdown ==
  /\ (mlPc = "returned" /\ mlChild \in {"zero", "nonzero"} /\ ~mlCtxAtExit)
       => /\ mlShutdown["ready"] + mlShutdown["exit"] + mlShutdown["signal"] >= 1
          /\ mlCtxDone
  /\ (mlChild # "running" /\ mlCtxAtExit) => mlShutdown["exit"] = 0

\* C13: a write of the child that holds two lines, "Lobby registration
\* successful" and a connect line, has the effects of both once it is
\* handled: Ready is true, and the player is in ConnectedPlayers and counted
\* in Players.
C13_ChunkAppliesEveryLine ==
  \A n \in PlayerNames, c \in Cars :
    (lastLine = Chunk(LobbyLine, ConnectLineComma(n, SteamIdOf(n), c)) /\ outPc = "idle")
      => /\ Ready
         /\ <<SteamIdOf(n)>> \in DOMAIN ConnectedPlayers
         /\ Players = snapPlayers + 1

\* C14: a DoHealth tick whose s.Health() call returns an error has not
\* assigned LastPing.
C14_FailedTickKeepsLastPing ==
  [][(healthPc = "ping" /\ healthPc' = "sdk") => ~tickWrotePing]_vars

\* C15: a DoHealth tick whose s.Health() call fails sets ShuttingDown, then
\* calls s.Shutdown() once, then cancels the root context and returns; the
\* loop makes no further tick, and no other Shutdown() call.
C15_FailedPingShutsDown ==
  [][/\ (healthPc = "ping" /\ healthPc' = "sdk") => ShuttingDown'
     /\ (healthPc = "sdk" /\ healthPc' # "sdk")
          => /\ healthPc' = "sleep"
             /\ sdkShutdown'["health"] = sdkShutdown["health"] + 1
     /\ (healthPc = "sleep" /\ healthPc' # "sleep") => (healthPc' = "done" /\ ctxDone')
     /\ (healthPc \in {"sdk", "sleep", "done"}) => healthPc' \notin {"wait", "ping"}
     /\ (sdkShutdown'["health"] # sdkShutdown["health"]) => healthPc = "sdk"
     /\ sdkShutdown'["health"] <= 1]_vars

\* C15 witness: DoHealth has returned after a failed ping.
C15_Witness ==
  /\ healthPc = "done"
  /\ sdkShutdown["health"] = 1
  /\ ctxDone
  /\ mainPc # "exit"

\* C16: no task calls the orchestrator SDK while it holds the ServerState
\* lock, for reading or for writing.
C16_NoSdkCallUnderLock == lkSdk.held = "none"

\* C17: every write of a mutable ServerState field is made by a task that
\* holds the ServerState lock for writing, and every read by a task that
\* holds it for reading or for writing.
C17_AccessUnderLock ==
  /\ lkAccess.kind = "write" => lkAccess.held = "write"
  /\ lkAccess.kind = "read" => lkAccess.held \in {"read", "write"}

\* C18: at most 2 updateSystemMetrics workers are in flight at any moment;
\* a tick that finds 2 in flight starts no worker and leaves none to be
\* started later (workers are created only by a tick that found a free
\* slot); the monitor loop is never blocked at the pool: at a tick it can
\* always take a step.
C18_PoolBounded ==
  /\ [](InFlight <= 2)
  /\ [](msrPc = "tick" => ENABLED (MsrDispatch \/ MsrSkip))
  /\ [][/\ (msrPc = "tick" /\ InFlight = 2 /\ msrPc' # "tick")
              => /\ msrPc' = "select" /\ msrSkips' = msrSkips + 1
                 /\ InFlight' = 2 /\ wkStarted' = wkStarted
        /\ (wkStarted' > wkStarted) => (msrPc = "tick" /\ InFlight < 2)]_vars

\* two workers are in flight and a tick was skipped
C18_Witness == InFlight = 2 /\ msrPc = "select" /\ msrSkips > 0

\* C19: no two executions of updateSystemMetrics are concurrent.
C19_NoOverlap == wkRunning <= 1

\* every periodic task has returned
AllLoopsReturned == \A t \in LoopTasks : lpRoutine[t] = "returned"

\* C20: once the root context is cancelled, DoHealth, MonitorMetrics,
\* MonitorSystemResources, handleReservation and the three loops of the
\* PerformanceMonitor all return in the end.
C20_LoopsExit == lpCtxDone ~> AllLoopsReturned

\* the context was cancelled from outside while DoHealth was healthy, and
\* every periodic task has returned
C20_Witness == lpCtxDone /\ AllLoopsReturned /\ lpPc["DoHealth"] = 0

\* C21: in the startup sequence exactly one case of the select is taken;
\* s.Ready() is called by the startup sequence exactly when the ready
\* signal was taken; when the timeout or the cancellation is taken there is
\* no s.Ready() call, s.Shutdown() is called and then the root context is
\* cancelled, and handleReservation is never started.
C21_StartupOneWinner ==
  /\ (mlWon = "none") = (mlPc = "waitForServerReady")
  /\ mlSdkReady = (IF mlWon = "ready" THEN 1 ELSE 0)
  /\ mlWon \in {"timeout", "ctx"} =>
       /\ ~mlReserve
       /\ mlPc \in {"ready.Shutdown", "ready.cancel", "returned", "exited"}
       /\ mlShutdown["ready"] = (IF mlPc = "ready.Shutdown" THEN 0 ELSE 1)
       /\ mlPc \in {"returned", "exited"} => mlCtxDone
  /\ mlReserve => mlWon = "ready"

\* the timeout won: the startup sequence has shut down and returned
C21_Witness ==
  mlWon = "timeout" /\ mlPc = "returned" /\ mlShutdown["ready"] = 1 /\ ~mlReserve

\* C22: handleServerReady never blocks: at its send a step is always
\* possible, whether or not main is waiting for the signal and whether or
\* not the channel already holds one; the channel never holds more than
\* one signal; after the send the output path is ready for the next line.
C22_ReadySendNeverBlocks ==
  /\ [](serverReady <= 1)
  /\ []((outPc = "readySend" /\ Alive) => ENABLED ReadySend)
  /\ [][(outPc = "readySend" /\ outPc' # "readySend") => outPc' = "idle"]_vars

\* a second signal was offered while the first was still in the channel, and
\* the handler went on
C22_Witness ==
  readyOffers = 2 /\ serverReady = 1 /\ sdkReady = 0 /\ outPc = "idle" /\ mainPc = "wait"

C24_FaultsContained ==
  [][(nLines' = nLines + 1 /\ lastFault' # "none")
       => /\ outPc' = "idle"
          /\ errPanic' = errPanic + 1
          /\ lastFault' # "locked"
          /\ UNCHANGED <<Ready, ShuttingDown, Players, ConnectedPlayers>>]_vars

\* C25: a connect line from which no steam id can be extracted is dropped:
\* it leaves ConnectedPlayers, Players and the players gauge as they were,
\* increments no counter and makes no SetAnnotation call; and the empty
\* string is never a key of ConnectedPlayers.
C25_NoIdRejected ==
  /\ [](<<>> \notin DOMAIN ConnectedPlayers)
  /\ [][(/\ nLines' = nLines + 1
         /\ lastHandler' = "handlePlayerConnect"
         /\ ExtractSteamID(lastLine') = <<>>)
        => /\ UNCHANGED <<ConnectedPlayers, Players, playersGauge, errPanic>>
           /\ lineCalls' = {}]_vars

\* a connect line without a steam id was dropped while a player was connected
C25_Witness ==
  /\ lastHandler = "handlePlayerConnect"
  /\ ExtractSteamID(lastLine) = <<>>
  /\ Players = 1 /\ snapPlayers = 1
  /\ ConnectedPlayers = snapCP
  /\ lineCalls = {}

C27_ReserveFailureNotFatal ==
  /\ [][(Len(mlResLog') > Len(mlResLog) /\ mlResLog'[Len(mlResLog')] = "err")
         => /\ mlResPc' = "select"
            /\ UNCHANGED <<mlCtxDone, mlShutdown, mlPc, mlSigPc, mlChild, stateVars>>]_vars
  /\ [][(mlResPc = "select" /\ mlResPc' # "select") => mlCtxDone]_vars
  /\ []((/\ mlResPc = "select" /\ mlPc # "exited" /\ Len(mlResLog) \in 1..(MaxTicks - 1)
          /\ mlResLog[Len(mlResLog)] = "err")
         => ENABLED MonoReserveTick)

\* a Reserve() failed, and the call of the next tick went through, with
\* the context live and no Shutdown() called
C27_Witness ==
  /\ mlResLog = <<"err", "ok">>
  /\ mlResPc = "select"
  /\ ~mlCtxDone
  /\ \A c \in DOMAIN mlShutdown : mlShutdown[c] = 0

\* C28: Players is never negative, whatever the sequence of connect,
\* disconnect and session-end lines, disconnects at Players = 0 included.
C28_PlayersNotNegative == Players >= 0 /\ snapPlayers >= 0

\* a disconnect line was handled when Players was 0, after a session end
\* had emptied the server
C28_Witness ==
  /\ lastHandler = "handlePlayerDisconnect"
  /\ snapPlayers = 0
  /\ Players = 0
  /\ ShuttingDown

\* C29: for every configured session time, no pause between two
\* notifications is longer than 5 minutes while the remaining time passes
\* through the range from 15 to 5 minutes, and each pause begun with 5
\* minutes or less remaining is one minute long.
C29_CountdownIntervals ==
  [][(ctsPc = "delay" /\ ctsPc' = "for")
       => /\ (remainingSeconds > 300 /\ remainingSeconds' < 900) => sleepInterval <= 300
          /\ (remainingSeconds <= 300 /\ remainingSeconds > 0) => sleepInterval = 60]_vars

\* C30: without cancellation the countdown ends, after "Fin de session"
\* was broadcast exactly once, when the pauses add up to
\* SessionTimeMinutes * 60 seconds; and remainingSeconds is not negative
\* in any iteration of the loop.
C30_CountdownEnds ==
  stoppingToken \/
    /\ ctsPc = "delay" => remainingSeconds >= 0
    /\ ctsPc \in {"returned", "threw"} =>
         /\ ctsFin = 1
         /\ ctsSlept % 60 = 0
         /\ ctsSlept \div 60 = ctsMinutes
    /\ ctsPc \in {"for", "delay"} => ctsFin = 0

\* C31: while fewer calls of StartNewSession were made than the transitions
\* channel holds, no call has panicked, the history has at most maxHistory
\* entries, they are the sessions archived last in the order of archiving,
\* and each has its EndTime set.
C31_HistoryBounded ==
  smStarts < TransitionsCap =>
    /\ smFaults = 0
    /\ Len(smHistory) <= smMaxHistory
    /\ \A i \in 1..Len(smHistory) :
         /\ smHistory[i].EndTime
         /\ smHistory[i].Id = smCurrent.Id - Len(smHistory) + i - 1

\* C32: the transition recorded by StartNewSession(t) has To = t and From
\* the type of the session that was current before the call, "none" when
\* there was none.
C32_TransitionNamesPrevious ==
  smLast.To # "" => (smLast.To = smCurrent.Type /\ smLast.From = smPrev)

\* C33: every call of StartNewSession returns and releases the write lock,
\* so that a caller of GetCurrentSession or GetSessionHistory can always
\* take the read lock in the end.
C33_StartReturns ==
  /\ (smPc = "send") ~> (smPc = "idle")
  /\ []<>(ENABLED SmRLock \/ smReaderPc = "reading")

\* C34: in the modular wrapper, once Shutdown() was issued by the signal
\* handler, by a failed health ping or by the session end, no Ready() is
\* issued.
C34_NoReadyAfterShutdown ==
  [][sdkReady' > sdkReady
       => sdkShutdown["signal"] + sdkShutdown["health"] + sdkShutdown["handlers"] = 0]_vars

\* C35: in the modular wrapper, in every state in which Shutdown() has been
\* called by any path, ShuttingDown is true.
C35_ShutdownImpliesShuttingDown ==
  (\E c \in ShutdownCallers : sdkShutdown[c] > 0) => ShuttingDown

\* C36: in the monolithic wrapper every tick of monitorMetrics runs to its
\* end, back at the select of its loop with every read lock it took given
\* back, whatever doHealth does.
C36_MetricsTickCompletes == (mtPc # "select") ~> (mtPc = "select")

\* C37: in the monolithic wrapper the handling of a "Lobby registration
\* successful" line is never left at its send on serverReady with nobody
\* to receive: while the process runs and main has left
\* waitForServerReady, a handler at the send finds room in the channel.
C37_ReadySendReturns ==
  (mlOutPc = "send" /\ mlPc \notin {"waitForServerReady", "exited"}) => mlReady < 1

\* C38: in the monolithic wrapper s.Ready() is called, by anyone, only
\* after a "Lobby registration successful" line was processed (state.ready
\* set).
C38_ReadyOnlyAfterLobby ==
  (mlSdkReady + mlApiReady > 0) => mlStateReady

\* C39: a log line containing "CHAT:", whatever other text it carries, never
\* changes Ready or ShuttingDown, never clears ConnectedPlayers and never
\* starts gracefulShutdown, the path of handleSessionEnd to SDK Shutdown();
\* holding at every step, it makes two runs that differ only in chat text
\* agree on the lifecycle state
C39_ChatDoesNotDriveLifecycle ==
  [][(nLines' = nLines + 1 /\ Contains(lastLine', "CHAT:"))
       => /\ UNCHANGED <<Ready, ShuttingDown, ConnectedPlayers>>
          /\ outPc' # "endLock"]_vars

====
